---- MODULE Spec2Model ----
(***************************************************************************)
(* A model of the digo build engine's coordination core: the global        *)
(* AsyncQueue (lib/utility/asyncQueue, driven through builder/async.ts),   *)
(* the FileList processor chain (builder/fileList), src() and the root     *)
(* list lock (builder/src.ts), File.save (builder/file.ts), the Watcher's  *)
(* change marks and rebuild job (builder/watch.ts) and the FSWatcher's     *)
(* debounce and cache update (utility/fsWatcher, in utility/fs.ts).        *)
(*                                                                         *)
(* Nine specifications share  the variables:                                *)
(*   SpecQueue  the AsyncQueue alone, with abstract jobs;                  *)
(*   SpecBuild  a task that calls src(), its chains, and watch rebuilds;   *)
(*   SpecWatch  the FSWatcher of utility/fs.ts and the disk under it;      *)
(*   SpecPipe   a chain of FileLists built by pipe() and its files;        *)
(*   SpecLoad   one File and the load() calls made on it;                  *)
(*   SpecSave   one File and the save() calls made on it;                  *)
(*   SpecMap    one SourceMapBuilder, addMapping and applySourceMap;       *)
(*   SpecMatch  one Matcher, add, addIgnore and test;                      *)
(*   SpecVlq    the Base64-VLQ encoder and decoder of the source maps.     *)
(***************************************************************************)
EXTENDS Integers, Sequences, FiniteSets, TLC

VARIABLES
    queue,      \* AsyncQueue: the jobs enqueued and not yet started
    lockCount,  \* AsyncQueue: lock() calls minus unlock() calls
    running,    \* id of the job that started and has not completed, 0 if none
    nextId,     \* number of jobs enqueued so far
    started,    \* history: ids of the jobs in the order they started
    finished,   \* history: ids of the jobs that completed
    enqLocked,  \* history: ids of the jobs enqueued while lockCount > 0
    buildMode,  \* file.buildMode: "build", "watch", "server", "clean", "preview"
    pkind,      \* the processor the task pipes the first root list to
    created,    \* per root list: src() has returned it
    attached,   \* per root list: the setImmediate of src() has appended then()
    toFind,     \* per root list: matching paths glob has not reported yet
    globEnded,  \* per root list: glob has called its end callback
    fl,         \* the FileLists: _pending, _adding, operations in flight, history
    deps,       \* Watcher.deps: consumer path -> declared dep paths
    watched,    \* paths under a native watcher
    watchAdding,\* root lists whose watcher.add() has not called back
    rootLists,  \* Watcher.rootLists
    changed,    \* Watcher.changed
    deleted,    \* Watcher.deleted
    nEvents,    \* number of watch events delivered so far
    summaries,  \* history: number of summaries run() has logged
    disk,       \* the files under the watched base: mtime, 0 if absent
    fw,         \* the FSWatcher: pending paths, timer, fs calls, cache, lists
    pp,         \* a chain of FileLists built by pipe() and the files it has passed on
    lf,         \* one File, the load() calls made on it and the disk under it
    sv,         \* one File as File.save sees it, and what its save() calls did
    sm,         \* one SourceMapBuilder: its sources and the mappings of its lines
    mt,         \* one Matcher: its patterns and its ignoreMatcher
    vq,         \* one integer, its Base64-VLQ encoding and what that decodes to
    fs,         \* the filesystem facade: calls in flight, retries, the delayed list and its timer
    wk,         \* the walks of one glob: counters, caches, requests in flight
    ic,         \* one FSWatcher.add: the context of _initCache and its fs calls
    dp          \* a Watcher with a dependency map: its arrays changed and deleted

qvars == <<queue, lockCount, running, nextId, started, finished, enqLocked>>

bvars == <<buildMode, pkind, created, attached, toFind, globEnded, fl, watched,
           watchAdding, rootLists, nEvents, summaries>>

wvars == <<deps, changed, deleted>>

fvars == <<disk, fw>>

pvars == <<pp>>

lvars == <<lf>>

yvars == <<fs, wk, ic, dp>>

uvars == <<sv, sm, mt, vq, yvars>>

vars == <<qvars, bvars, wvars, fvars, pvars, lvars, uvars>>

----------------------------------------------------------------------------
(* Bounds *)

MaxJobs == 4        \* jobs enqueued in one run of SpecQueue
MaxLocks == 2       \* nesting depth of external locks in SpecQueue
MaxEvents == 2      \* watch events delivered in one run of SpecBuild
MaxDisk == 2        \* changes made to the disk in one run of SpecWatch
MaxLists == 4       \* lists of one chain in SpecPipe, the root included
MaxAdds == 2        \* files added to the root of the chain in one run of SpecPipe
MaxLoads == 3       \* load() calls made on the File of SpecLoad
MaxData == 2        \* contents the file under the File of SpecLoad takes
MaxSaves == 2       \* save() calls made on the File of SpecSave
MaxMaps == 3        \* addMapping calls made on the builder of SpecMap
MaxCol == 2         \* the largest generated column of SpecMap
MaxPats == 3        \* add and addIgnore calls made on the Matcher of SpecMatch
MaxN == 20          \* SpecVlq encodes every integer from -MaxN to MaxN
MaxTry == 1         \* the largest tryCount the program of SpecFs passes
MaxExtra == 1       \* how far below zero tryCount goes in SpecFs while errors are still reported
MaxChunks == 1      \* buffers the copy loop of SpecFs reads before the end of the file
MaxEntries == 3     \* entries of the folder FSWatcher.add is called on in SpecAdd
MaxRetries == 1     \* EMFILE answers to the readdir calls of SpecAdd
MaxMarks == 3       \* events the Watcher of SpecDeps gets between two rebuilds

----------------------------------------------------------------------------
(* AsyncQueue (spec 4.6; lib/utility/asyncQueue.ts is not part of src/) *)

\* enqueue(callback): append a node to the FIFO.
enqueue(q, job) == Append(q, job)

\* The keys callers pass: none, src() and Watcher.rebuild, addWatch, and exec,
\* which locks under the command and unlocks under the task id.
Keys == {"undefined", "RootFileList", "watch", "command", "taskId"}

\* unlock(key?) releasing every lock held instead of one.
unlockAll(n, key) == 0

\* lock(key?): the key is only a label, the counter is what counts.
lock(n, key) == n + 1

\* unlock(key?)
unlock(n, key) == n - 1

\* The drain guard: the queue runs its head only while no lock is held and
\* the previous job has completed.
canDequeue == lockCount = 0 /\ running = 0 /\ queue # <<>>

\* A job has run to completion: done() was invoked, it returned a non-promise
\* value, or its promise settled.
complete(id) ==
    /\ running' = 0
    /\ finished' = finished \cup {id}

\* The drain starts the head job; a job without a done parameter that returns
\* no promise has completed when it returns.
startJob(kind, sync) ==
    /\ canDequeue
    /\ Head(queue).kind = kind
    /\ queue' = Tail(queue)
    /\ started' = Append(started, Head(queue).id)
    /\ IF sync THEN complete(Head(queue).id)
               ELSE running' = Head(queue).id /\ UNCHANGED finished
    /\ UNCHANGED <<pvars, lvars, uvars, nextId, enqLocked>>

\* builder/async.ts then(callback) with the callback run at once instead of
\* being handed to the queue.
thenDirect(kind) ==
    /\ nextId' = nextId + 1
    /\ started' = Append(started, nextId + 1)
    /\ running' = nextId + 1
    /\ enqLocked' = IF lockCount > 0 THEN enqLocked \cup {nextId + 1} ELSE enqLocked
    /\ UNCHANGED <<pvars, lvars, uvars, queue, finished>>

\* builder/async.ts then(callback) with the callback put at the head of the
\* queue.
thenFront(kind) ==
    /\ nextId' = nextId + 1
    /\ queue' = <<[id |-> nextId + 1, kind |-> kind]>> \o queue
    /\ enqLocked' = IF lockCount > 0 THEN enqLocked \cup {nextId + 1} ELSE enqLocked
    /\ UNCHANGED <<pvars, lvars, uvars, running, started, finished>>

\* builder/async.ts then(callback): asyncQueue.enqueue(callback).
then(kind) ==
    /\ nextId' = nextId + 1
    /\ queue' = enqueue(queue, [id |-> nextId + 1, kind |-> kind])
    /\ enqLocked' = IF lockCount > 0 THEN enqLocked \cup {nextId + 1} ELSE enqLocked
    /\ UNCHANGED <<pvars, lvars, uvars, running, started, finished>>

----------------------------------------------------------------------------
(* The task of the model: digofile.js
     exports.default = () => {
         src("a").pipe(P).dest(dir);   // root list 1, lists 2 and 3
         src("c");                     // root list 2
     };
   src() appends a then() list to each chain on the next setImmediate:
   list 4 to the first chain, list 6 to the second. *)

Paths == {"a", "c"}
PathSeq == <<"a", "c">>
Roots == {1, 2}
Lists == 1..6

BuildModes == {"build", "watch", "server", "clean", "preview"}

\* P is one of: a function of (file, options), a function of (file, options,
\* done), list.src(pattern), list.then(done => ...). A function f stands as
\* well for the object pipe() makes of it with an after hook beside it:
\* { load: true, add: f, after }.
ProcessorKinds == {"sync", "async", "filter", "then"}

\* RootFileList.matcher.test(path)
Match(r, p) == IF r = 1 THEN p = "a" ELSE p = "c"

rootList(r) == IF r = 1 THEN 1 ELSE 5

\* FileList.processor of each list of the two chains
processor(i) ==
    CASE i \in {1, 5} -> "root"
      [] i = 2 -> pkind
      [] i = 3 -> "dest"
      [] OTHER -> "then"

\* FileList.next
next(i) ==
    CASE i = 1 -> 2
      [] i = 2 -> 3
      [] i = 3 -> IF attached[1] THEN 4 ELSE 0
      [] i = 5 -> IF attached[2] THEN 6 ELSE 0
      [] OTHER -> 0

\* FileList.prev: the list pipe() was called on
prev(i) ==
    CASE i = 2 -> 1
      [] i = 3 -> 2
      [] i = 4 -> 1
      [] i = 6 -> 5
      [] OTHER -> 0

\* FileList.hasNext(child): child is this list or derives from it
RECURSIVE hasNext(_, _)
hasNext(this, child) ==
    IF prev(this) = 0 \/ this = child
    THEN TRUE
    ELSE \E l \in Lists :
            /\ l > this
            /\ l <= (IF this <= 4 THEN (IF attached[1] THEN 4 ELSE 3)
                                  ELSE (IF attached[2] THEN 6 ELSE 5))
            /\ prev(l) = this
            /\ hasNext(l, child)

\* FileList._onAdd, the loop that passes over the lists derived from this one
RECURSIVE skipDerived(_, _)
skipDerived(this, n) ==
    IF n # 0 /\ hasNext(this, n) THEN skipDerived(this, next(n)) ELSE n

\* pipe(function) sets load: true; pipe(object) does not
loads(i) == processor(i) \in {"sync", "async"}

\* Processor.end is set: then() lists
hasEnd(i) == processor(i) = "then"

\* Processor.after is set
hasAfter(i) == processor(i) \in {"sync", "async"}

\* new File(path, base), and the buildMode the Watcher gives a deleted path
createFile(p, clean) ==
    [path |-> p, clean |-> clean \/ buildMode = "clean", loaded |-> FALSE, err |-> FALSE]

\* File.loaded
loaded(f) == f.loaded \/ f.clean

\* file.deps, filled through file.dep(): P declares "c" when the content of
\* "a" it has just read includes "c" (inc).
fileDeps(f, inc) ==
    IF pkind \in {"sync", "async"} /\ ~f.clean /\ f.path = "a" /\ inc THEN {"c"} ELSE {}

\* file.saveFile is set: Server.start installs the in-memory sink
sink == buildMode = "server"

NoLists ==
    [ pending   |-> [i \in Lists |-> 0],       \* FileList._pending
      adding    |-> [i \in Lists |-> FALSE],   \* FileList._adding
      inflight  |-> {},                        \* loads, async adds, saves in flight
      ending    |-> [i \in Lists |-> 0],       \* async end hooks in flight
      thrown    |-> {},                        \* history: adds whose hook threw
      closes    |-> [i \in Lists |-> 0],       \* history: times the list reached its end
      ends      |-> [i \in Lists |-> 0],       \* history: end() calls received
      busyEnds  |-> {},                        \* history: lists ended with adds in flight
      afterBusy |-> {},                        \* history: lists whose after hook ran with adds in flight
      rootAdded |-> [r \in Roots |-> [p \in Paths |-> 0]],   \* history: add() calls on a root list
      cleaned   |-> {},                        \* history: what File.save did for clean files
      savedDeps |-> [p \in Paths |-> {}] ]     \* history: file.deps at the last save under a Watcher

\* The lists together with what File.save reaches in the Watcher.
Pack == fl @@ [deps |-> deps, watched |-> watched]

flOf(S) == [k \in DOMAIN fl |-> S[k]]

inflightAt(S, i) == {x \in S.inflight : x.list = i}

\* Watcher.updateDep(file), the fileSave observer
updateDep(S, f, inc) ==
    IF fileDeps(f, inc) # {}
    THEN [S EXCEPT !.deps[f.path] = fileDeps(f, inc), !.watched = @ \cup fileDeps(f, inc)]
    ELSE IF ~f.err THEN [S EXCEPT !.deps[f.path] = {}] ELSE S

\* The fileSave event reaches the Watcher only while one is installed.
onFileSave(S, f, inc) ==
    IF buildMode \in {"watch", "server"} THEN updateDep(S, f, inc) ELSE S

\* FileList._before without the sentinel: the list is marked as adding and
\* the counter is left alone.
beforeNoSentinel(S, i) ==
    IF S.adding[i] THEN S
    ELSE [S EXCEPT !.adding[i] = TRUE]

\* FileList._before
before(S, i) ==
    IF S.adding[i] THEN S
    ELSE [S EXCEPT !.adding[i] = TRUE, !.pending[i] = @ + 1]

RECURSIVE add(_, _, _, _)
RECURSIVE onLoad(_, _, _, _)
RECURSIVE onAdd(_, _, _, _, _)
RECURSIVE after(_, _)
RECURSIVE onEnd(_, _)
RECURSIVE end(_, _)
RECURSIVE save(_, _, _, _)

\* FileList._onEnd
onEnd(S, i) ==
    LET S1 == [S EXCEPT !.pending[i] = 0, !.adding[i] = FALSE]
    IN  IF next(i) # 0 THEN end(S1, next(i)) ELSE S1

\* FileList._after with the test on the counter dropped: every completed add
\* ends the list.
afterAlways(S, i) ==
    LET S1 == [S EXCEPT !.pending[i] = @ - 1, !.closes[i] = @ + 1]
    IN  IF hasEnd(i) THEN [S1 EXCEPT !.ending[i] = @ + 1] ELSE onEnd(S1, i)

\* FileList._after: the end hook runs when the counter drops below one; an
\* asynchronous end hook (then) calls _onEnd from its done callback.
after(S, i) ==
    LET S1 == [S EXCEPT !.pending[i] = @ - 1]
    IN  IF S1.pending[i] < 1
        THEN LET S2 == [S1 EXCEPT !.closes[i] = @ + 1]
             IN  IF hasEnd(i) THEN [S2 EXCEPT !.ending[i] = @ + 1] ELSE onEnd(S2, i)
        ELSE S1

\* FileList.end: _before, the after hook of the processor, _after
end(S, i) ==
    LET S1 == before(S, i)
        S2 == [S1 EXCEPT !.ends[i] = @ + 1,
                         !.busyEnds = IF inflightAt(S1, i) # {} THEN @ \cup {i} ELSE @,
                         !.afterBusy = IF hasAfter(i) /\ inflightAt(S1, i) # {}
                                       THEN @ \cup {i} ELSE @]
    IN  after(S2, i)

\* FileList._onAdd: add is "keep" (undefined or true) or "drop" (false)
onAdd(S, i, f, keep, env) ==
    LET n0 == next(i)
        n  == IF keep = "drop" THEN skipDerived(i, n0) ELSE n0
        S1 == IF n # 0 THEN add(S, n, f, env) ELSE S
    IN  after(S1, i)

\* File.save has written f without an error while a Watcher is installed:
\* the deps the file carries at that moment.
written(S, f, inc) ==
    IF buildMode \in {"watch", "server"} THEN [S EXCEPT !.savedDeps[f.path] = fileDeps(f, inc)]
    ELSE S

\* What File.save asks of the outputs of f (the destination and, when there
\* is one, the sibling map): saveFile(path, null) or deleteFile is "remove",
\* saveFile(path, buffer), writeFile or copyFile is "write". The history keeps
\* it for the files in clean mode.
saved(S, f, effect) ==
    IF f.clean THEN [S EXCEPT !.cleaned = @ \cup {[path |-> f.path, effect |-> effect]}] ELSE S

\* File.save(dir, callback) as dest() calls it, with sourceMap off (its
\* default). env.save[path] = "skip" stands for the exits that call back at
\* once: fileValidate vetoed, no path, unmodified onto itself, overwrite refused.
save(S, i, f, env) ==
    IF env.save[f.path] = "skip" THEN onAdd(S, i, f, "keep", env)
    ELSE IF sink
    THEN IF f.clean THEN saved(S, f, "remove")
         ELSE IF loaded(f) THEN onAdd(written(saved(S, f, "write"), f, env.dep), i, f, "keep", env)
         ELSE [S EXCEPT !.inflight = @ \cup {[list |-> i, file |-> f, op |-> "sinkload"]}]
    ELSE IF f.clean \/ buildMode \in {"build", "watch", "server"}
    THEN [saved(S, f, IF f.clean THEN "remove" ELSE "write")
              EXCEPT !.inflight = @ \cup {[list |-> i, file |-> f, op |-> "save"]}]
    ELSE onAdd(onFileSave(written(S, f, env.dep), f, env.dep), i, f, "keep", env)

\* FileList._onLoad: the add hook of the list's processor
onLoad(S, i, f, env) ==
    CASE processor(i) \in {"sync", "filter"} -> onAdd(S, i, f, env.add[f.path], env)
      [] processor(i) = "async" ->
            [S EXCEPT !.inflight = @ \cup {[list |-> i, file |-> f, op |-> "add"]}]
      [] processor(i) = "dest" -> save(S, i, f, env)
      [] OTHER -> onAdd(S, i, f, "keep", env)

\* FileList.add(file, root); root is always a root list here, for which
\* root.hasNext(this) is true.
add(S, i, f, env) ==
    LET S1 == before(S, i)
        S2 == [S1 EXCEPT !.pending[i] = @ + 1,
                         !.rootAdded = IF i \in {1, 5}
                                       THEN [@ EXCEPT ![IF i = 1 THEN 1 ELSE 2][f.path] = @ + 1]
                                       ELSE @]
    IN  IF loads(i) /\ ~loaded(f)
        THEN [S2 EXCEPT !.inflight = @ \cup {[list |-> i, file |-> f, op |-> "load"]}]
        ELSE onLoad(S2, i, f, env)

\* What the hooks and File.save decide for the files added in one handler.
Envs == [add : [Paths -> {"keep", "drop"}], save : [Paths -> {"write", "skip"}],
         dep : BOOLEAN]

\* The choices that make no difference for the file the callback is about.
NoEnv == [add |-> [p \in Paths |-> "keep"], save |-> [p \in Paths |-> "write"], dep |-> FALSE]

----------------------------------------------------------------------------
(* src(), the Watcher's marks and its rebuild job *)

\* A Watcher exists: run() calls watch(task) or startServer({task}).
Watching == buildMode \in {"watch", "server"}

\* src(...patterns) without asyncQueue.lock("RootFileList").
srcNoLock(T, r, found) ==
    [T EXCEPT !.created[r] = TRUE, !.toFind[r] = found]

\* src(...patterns): the new root list, the lock, glob started on the
\* patterns; found is what glob is going to report.
src(T, r, found) ==
    [T EXCEPT !.lockCount = lock(@, "RootFileList"), !.created[r] = TRUE, !.toFind[r] = found]

\* array.indexOf(p) >= 0
has(s, p) == \E k \in 1..Len(s) : s[k] = p

\* array.splice(array.indexOf(p), 1)
splice(s, p) ==
    LET i == CHOOSE k \in 1..Len(s) : s[k] = p /\ \A j \in 1..(k - 1) : s[j] # p
    IN  SubSeq(s, 1, i - 1) \o SubSeq(s, i + 1, Len(s))

\* The arrays changed and deleted of a Watcher with nothing in them; calls
\* counts the invocations of addChange and pushed lists what they pushed
\* onto changed.
NoMarks == [changed |-> <<>>, deleted |-> <<>>, calls |-> 0, pushed |-> <<>>]

\* The marks with the paths of two sets in the arrays
marksOf(chg, del) ==
    [NoMarks EXCEPT !.changed = SelectSeq(PathSeq, LAMBDA q : q \in chg),
                    !.deleted = SelectSeq(PathSeq, LAMBDA q : q \in del)]

\* The paths an array holds
pathsIn(s) == {s[k] : k \in 1..Len(s)}

\* addChange that pushes the path without looking for it in changed, and
\* leaves the dependents alone
addChangeBlind(M, d, p) ==
    [M EXCEPT !.calls = @ + 1, !.changed = Append(@, p), !.pushed = Append(@, p)]

\* Watcher.addChange(path); d is Watcher.deps, its keys visited in order
RECURSIVE addChange(_, _, _)
addChange(M, d, p) ==
    IF has(M.changed, p) THEN [M EXCEPT !.calls = @ + 1]
    ELSE LET M1 == [M EXCEPT !.calls = @ + 1,
                             !.deleted = IF has(@, p) THEN splice(@, p) ELSE @,
                             !.changed = Append(@, p),
                             !.pushed = Append(@, p)]
             visit[k \in 0..Len(PathSeq)] ==
                 IF k = 0 THEN M1
                 ELSE IF p \in d[PathSeq[k]]
                      THEN addChange(visit[k - 1], d, PathSeq[k])
                      ELSE visit[k - 1]
         IN  visit[Len(PathSeq)]

\* Watcher.addDelete(path)
addDelete(M, d, p) ==
    IF has(M.deleted, p) THEN M
    ELSE LET M1 == [M EXCEPT !.changed = IF has(@, p) THEN splice(@, p) ELSE @,
                             !.deleted = Append(@, p)]
             visit[k \in 0..Len(PathSeq)] ==
                 IF k = 0 THEN M1
                 ELSE IF p \in d[PathSeq[k]]
                      THEN addChange(visit[k - 1], d, PathSeq[k])
                      ELSE visit[k - 1]
         IN  visit[Len(PathSeq)]

\* The Watcher of SpecDeps before its first step
NoDeps ==
    [ loaded  |-> FALSE,                  \* the dependency map is chosen
      deps    |-> [p \in Paths |-> {}],   \* Watcher.deps
      changed |-> <<>>,                   \* Watcher.changed
      deleted |-> <<>>,                   \* Watcher.deleted
      marks   |-> 0,                      \* history: events since the last rebuild
      calls   |-> 0,                      \* history: addChange invocations of the last event
      pushed  |-> <<>> ]                  \* history: what the last event pushed onto changed

\* Watcher.rebuild() with its job run on the spot instead of queued.
rebuildAtOnce == thenDirect("rebuild")

\* Watcher.rebuild(): the job is queued behind whatever is running.
rebuild == then("rebuild")

\* list.add(list.createFile(p)) for each p of ps, in array order
RECURSIVE addEach(_, _, _, _, _, _)
addEach(S, i, ps, clean, env, k) ==
    IF k > Len(PathSeq) THEN S
    ELSE addEach(IF PathSeq[k] \in ps
                 THEN add(S, i, createFile(PathSeq[k], clean), env)
                 ELSE S,
                 i, ps, clean, env, k + 1)

\* The body of the rebuild job for one root list, the matcher not consulted.
rebuildListUnmatched(S, r, env) ==
    LET S1 == IF buildMode # "preview"
              THEN addEach(S, rootList(r), deleted, TRUE, env, 1) ELSE S
        S2 == addEach(S1, rootList(r), changed, FALSE, env, 1)
    IN  IF deleted \cup changed # {}
        THEN end([S2 EXCEPT !.lockCount = lock(@, "RootFileList")], rootList(r))
        ELSE S2

\* The body of the rebuild job for one root list, the files of the deleted
\* paths left in the build mode of the run.
rebuildListNoClean(S, r, env) ==
    LET dels == {p \in deleted : Match(r, p)}
        chgs == {p \in changed : Match(r, p)}
        S1 == addEach(S, rootList(r), dels \cup chgs, FALSE, env, 1)
    IN  IF dels \cup chgs # {}
        THEN end([S1 EXCEPT !.lockCount = lock(@, "RootFileList")], rootList(r))
        ELSE S1

\* The body of the rebuild job for one root list.
rebuildList(S, r, env) ==
    LET dels == {p \in deleted : Match(r, p)}
        chgs == {p \in changed : Match(r, p)}
        S1 == IF buildMode # "preview"
              THEN addEach(S, rootList(r), dels, TRUE, env, 1) ELSE S
        S2 == addEach(S1, rootList(r), chgs, FALSE, env, 1)
    IN  IF dels \cup chgs # {}
        THEN end([S2 EXCEPT !.lockCount = lock(@, "RootFileList")], rootList(r))
        ELSE S2

RECURSIVE rebuildLists(_, _, _)
rebuildLists(S, k, env) ==
    IF k > Len(rootLists) THEN S
    ELSE rebuildLists(rebuildList(S, rootLists[k], env), k + 1, env)

----------------------------------------------------------------------------
(* FSWatcher (utility/fs.ts): the debounce of raw events and the cache update.
   The watched base holds a file "q" and a folder "d" with a file "d/p"; the
   native watcher is recursive, so that a raw event names the path it is
   about. "d/0" is the path the index loop of the folder update asks for. *)

WFiles == {"d/p", "q"}
WPaths == WFiles \cup {"d"}
StatPaths == WPaths \cup {"d/0"}

\* The entries readdir("d") returns
entriesOf(at) == {p \in {"d/p"} : at[p] > 0}

NoWatcher ==
    [ pendingChanges |-> {},                      \* FSWatcher._pendingChanges
      timer          |-> FALSE,                   \* _emitPendingChangesTimer is set
      stats          |-> [p \in StatPaths |-> 0], \* fs.stat calls not yet called back
      readdirs       |-> 0,                       \* fs.readdir("d") calls not yet called back
      fileCache      |-> [p \in WFiles |-> 0],    \* _fsCache of a file: its mtime, 0 if none
      dirCached      |-> FALSE,                   \* _fsCache holds the entries of "d"
      dirEntries     |-> {},                      \* _fsCache of "d": its entries
      deletes        |-> {},                      \* _deletes
      changes        |-> <<>>,                    \* _changes
      changeStats    |-> <<>>,                    \* _changeStats: the path of each stats object
      lastDeletes    |-> {},                      \* history: what the last onDelete got
      lastChanges    |-> {},                      \* history: what the last onChange got
      emits          |-> 0,                       \* history: emissions so far
      unheard        |-> FALSE,                   \* history: a raw event left no timer armed
      unmatched      |-> FALSE ]                  \* history: an onChange got lists that differ

\* FSWatcher._updatePending
updatePending(F) ==
    F.readdirs + F.stats["d"] + F.stats["d/p"] + F.stats["q"] + F.stats["d/0"]

\* FSWatcher._handleWatchChange(event, path)
handleWatchChange(F, p) ==
    IF p \in F.pendingChanges THEN F
    ELSE [F EXCEPT !.pendingChanges = @ \cup {p}, !.timer = TRUE]

\* FSWatcher._emitPendingChanges: _updateCache(path) for every pending path,
\* each starting with fs.stat; _pendingChanges is left as it is.
emitPendingChanges(F) ==
    [F EXCEPT !.timer = FALSE,
              !.stats = [p \in StatPaths |-> IF p \in F.pendingChanges THEN @[p] + 1 ELSE @[p]]]

\* _removeCache that reports a file whether the cache holds it or not
removeCacheFileAlways(F, p) ==
    IF p \in WFiles
    THEN [F EXCEPT !.deletes = @ \cup {p}, !.fileCache[p] = 0]
    ELSE F

\* FSWatcher._removeCache(path) for a file, or a path with no cache
removeCacheFile(F, p) ==
    IF p \in WFiles /\ F.fileCache[p] > 0
    THEN [F EXCEPT !.deletes = @ \cup {p}, !.fileCache[p] = 0]
    ELSE F

\* FSWatcher._removeCache(path)
removeCache(F, p) ==
    IF p = "d" /\ F.dirCached
    THEN LET F1 == IF "d/p" \in F.dirEntries THEN removeCacheFile(F, "d/p") ELSE F
         IN  [F1 EXCEPT !.dirCached = FALSE, !.dirEntries = {}]
    ELSE removeCacheFile(F, p)

\* FSWatcher._updateCache(path, stats) with stats.isFile(); m is the mtime
updateCacheFile(F, p, m) ==
    [F EXCEPT !.changes = IF F.fileCache[p] # m THEN Append(@, p) ELSE @,
              !.changeStats = IF F.fileCache[p] # m THEN Append(@, p) ELSE @,
              !.fileCache[p] = m]

\* FSWatcher._emitChanges: onDelete(_deletes) and onChange(_changes,
\* _changeStats) if the list is there; _deletes and _changes are deleted,
\* _changeStats is not.
emitChanges(F) ==
    [F EXCEPT !.lastDeletes = F.deletes,
              !.lastChanges = {F.changes[k] : k \in 1..Len(F.changes)},
              !.deletes = {}, !.changes = <<>>,
              !.unmatched = @ \/ (F.changes # <<>> /\ F.changes # F.changeStats),
              !.emits = IF F.deletes # {} \/ F.changes # <<>> THEN @ + 1 ELSE @]

\* The tail of every fs callback: if (--_updatePending > 0) return; _emitChanges()
settle(F) == IF updatePending(F) > 0 THEN F ELSE emitChanges(F)

----------------------------------------------------------------------------
(* A chain of FileLists as pipe() builds it, with processors whose hooks are
   synchronous: list 1 is the root (new FileList(), no processor), the others
   are created by pipe(), then(), src(), dest(), clone() and delete(), which
   all go through pipe(). *)

PLists == 1..MaxLists
PPaths == {"x", "y"}

\* What an add hook returns, or passes to done()
PResults == {"undefined", "true", "false"}

\* The initalPath of a file made by a processor
Generated == "undefined"

NoPipes ==
    [ n       |-> 1,                          \* lists created so far
      prev    |-> [i \in PLists |-> 0],       \* FileList.prev, 0 if none
      next    |-> [i \in PLists |-> 0],       \* FileList.next, 0 if none
      collect |-> [i \in PLists |-> FALSE],   \* processor.collect
      files   |-> [i \in PLists |-> <<>>],    \* FileList.files, the buffer of a collecting list
      adds    |-> 0,                          \* files added to the root so far
      at      |-> 0,                          \* the list whose add hook has the file, 0 if none
      last    |-> [path |-> Generated, ver |-> 0, clean |-> FALSE],  \* the file on its way
      refused |-> {},                         \* history: the lists whose hook returned false for it
      got     |-> {} ]                        \* history: the lists it was added to

\* FileList.result
RECURSIVE result(_, _)
result(P, i) == IF P.next[i] = 0 THEN i ELSE result(P, P.next[i])

\* pipe() with the new list linked after the receiver itself
pipeAfterReceiver(P, i, c) ==
    LET r == P.n + 1
    IN  [P EXCEPT !.n = r, !.prev[r] = i, !.next[i] = r, !.collect[r] = c]

\* FileList.pipe(processor) called on list i; c is processor.collect
pipe(P, i, c) ==
    LET r == P.n + 1
    IN  [P EXCEPT !.n = r, !.prev[r] = i, !.next[result(P, i)] = r, !.collect[r] = c]

\* The lists of the chain from i on, following next
RECURSIVE chainFrom(_, _)
chainFrom(P, i) == IF i = 0 THEN <<>> ELSE <<i>> \o chainFrom(P, P.next[i])

\* FileList.hasNext(child), called on list this
RECURSIVE pHasNext(_, _, _)
pHasNext(P, this, child) ==
    IF P.prev[this] = 0 \/ this = child THEN TRUE
    ELSE LET rest == chainFrom(P, P.next[this])
         IN  \E k \in 1..Len(rest) : P.prev[rest[k]] = this /\ pHasNext(P, rest[k], child)

\* FileList._onAdd: while (next && this.hasNext(next)) next = next.next
RECURSIVE pSkip(_, _, _)
pSkip(P, this, n) ==
    IF n # 0 /\ pHasNext(P, this, n) THEN pSkip(P, this, P.next[n]) ELSE n

\* The index _onAdd computes in the buffer b for file f
bufferIndex(b, f) ==
    IF f.path = Generated \/ \A k \in 1..Len(b) : b[k].path # f.path
    THEN Len(b) + 1
    ELSE CHOOSE k \in 1..Len(b) : b[k].path = f.path /\ \A j \in 1..(k - 1) : b[j].path # f.path

\* _onAdd on a collecting list with every clone appended to the buffer
collectAppend(b, f) ==
    IF f.clean THEN b ELSE Append(b, [path |-> f.path, ver |-> f.ver])

\* FileList._onAdd, the part for a collecting list: files.splice(index, 1) for
\* a file in clean mode, files[index] = file.clone() otherwise
collect(b, f) ==
    LET index == bufferIndex(b, f)
    IN  IF f.clean
        THEN [k \in 1..(Len(b) - (IF index <= Len(b) THEN 1 ELSE 0)) |->
                 IF k < index THEN b[k] ELSE b[k + 1]]
        ELSE [k \in 1..(IF index <= Len(b) THEN Len(b) ELSE Len(b) + 1) |->
                 IF k = index THEN [path |-> f.path, ver |-> f.ver] ELSE b[k]]

\* root.add(file) has returned: the file is on no list any more.
returned(P) ==
    [P EXCEPT !.at = 0, !.last = [path |-> Generated, ver |-> 0, clean |-> FALSE],
              !.refused = {}, !.got = {}]

\* FileList.add(file, root) called on list i, up to the call of the add hook
pAdd(P, i, root) ==
    IF ~pHasNext(P, root, i) THEN returned(P)
    ELSE [P EXCEPT !.got = @ \cup {i}, !.at = i]

\* FileList._onAdd(file, root, add) on list i: the buffer of a collecting
\* list, then next.add(file, root) on the list the file goes to, if any
pOnAdd(P, i, f, root, res) ==
    LET P1 == [P EXCEPT !.refused = IF res = "false" THEN @ \cup {i} ELSE @,
                        !.files[i] = IF P.collect[i] THEN collect(@, f) ELSE @]
        n0 == P.next[i]
        skip == IF res \in {"true", "false"} THEN res = "false" ELSE P.collect[i]
        n == IF skip THEN pSkip(P, i, n0) ELSE n0
    IN  IF n # 0 THEN pAdd(P1, n, root) ELSE returned(P1)

\* The end of a pass: the end hook of every collecting list has run and
\* _after has taken the generated files out of the buffer.
pEnd(P) ==
    [P EXCEPT !.files = [i \in PLists |-> SelectSeq(P.files[i], LAMBDA c : c.path # Generated)]]

\* List j was derived from list i: i is reached from j through prev.
RECURSIVE derivedFrom(_, _, _)
derivedFrom(P, j, i) ==
    P.prev[j] # 0 /\ (P.prev[j] = i \/ derivedFrom(P, P.prev[j], i))

----------------------------------------------------------------------------
(* File: loaded, load and the content accessors *)

\* A field that was never assigned.
Undefined == -1

\* Buffer.allocUnsafe(0)
Empty == 0

\* What a processor assigns to file.content.
Written == MaxData + 1

\* No File yet. disk is the content at initalPath, 0 when the file is missing;
\* calls, reads, called and errors are history: load() calls made, readFile
\* calls load() has issued, load callbacks invoked, errors recorded.
NoFile ==
    [made |-> FALSE, generated |-> FALSE, clean |-> FALSE,
     srcBuffer |-> Undefined, destContent |-> Undefined, disk |-> 0,
     reading |-> 0, calls |-> 0, reads |-> 0, called |-> 0, errors |-> 0]

\* new File(path), or new File() for a generated file; buildMode is the
\* mode of the run.
newFile(F, generated, clean, data) ==
    [F EXCEPT !.made = TRUE, !.generated = generated, !.clean = clean, !.disk = data]

\* get loaded()
isLoaded(F) ==
    F.generated \/ F.destContent # Undefined \/ F.srcBuffer # Undefined \/ F.clean

\* load(callback)
load(F) ==
    IF isLoaded(F)
    THEN [F EXCEPT !.calls = @ + 1, !.called = @ + 1]
    ELSE [F EXCEPT !.calls = @ + 1, !.reads = @ + 1, !.reading = @ + 1]

\* The callback load() gave to readFile: data is what was read, 0 for an
\* error.
readDone(F, data) ==
    [F EXCEPT !.reading = @ - 1,
              !.errors = IF data = 0 THEN @ + 1 ELSE @,
              !.srcBuffer = IF data = 0 THEN Empty ELSE data,
              !.called = @ + 1]

\* get srcBuffer(): reads the file synchronously when nothing is there yet.
getSrcBuffer(F) ==
    IF F.srcBuffer # Undefined THEN F
    ELSE IF ~F.generated /\ ~F.clean
    THEN [F EXCEPT !.srcBuffer = IF F.disk = 0 THEN Empty ELSE F.disk,
                   !.errors = IF F.disk = 0 THEN @ + 1 ELSE @]
    ELSE [F EXCEPT !.srcBuffer = Empty]

\* set content(value)
setContent(F, value) == [F EXCEPT !.destContent = value]

\* get content(), Undefined standing for "would read the file now"
content(F) ==
    IF F.destContent # Undefined THEN F.destContent ELSE F.srcBuffer

----------------------------------------------------------------------------
(* File.save on one File: the checks before the write, the sink of the
   server, the filesystem calls of each build mode and the done callback *)

\* No File yet. run is the mode of the run and mode the file's buildMode;
\* dest is where savePath points: "none" (no name), "same" (the source path)
\* or "other"; map, emit and inline are sourceMap && sourceMapData,
\* sourceMapEmit and sourceMapInline; io is the filesystem calls in flight
\* and pending the counter of done. History: saves and called count save()
\* calls and save callbacks, fsCalls the writeFile, copyFile and deleteFile
\* calls issued, sunk the calls of the server's saveFile, refused the
\* overwrite errors.
NoSave ==
    [made |-> FALSE, run |-> "build", mode |-> "build", generated |-> FALSE,
     dest |-> "other", modified |-> FALSE, overwrite |-> FALSE, loaded |-> FALSE,
     map |-> FALSE, emit |-> FALSE, inline |-> FALSE,
     io |-> {}, pending |-> 0, firstError |-> FALSE, reading |-> FALSE,
     saves |-> 0, called |-> 0, fsCalls |-> 0, sunk |-> 0, fileCount |-> 0,
     errors |-> 0, refused |-> 0]

sourceMapEmit(F) == F.map /\ F.emit

sourceMapPath(F) == F.map /\ ~F.inline

\* callback && callback(error, this)
saveCallback(F) == [F EXCEPT !.called = @ + 1]

\* done(error) of File.save without fileCount++.
File_saveDoneUncounted(F, op, error) ==
    LET F1 == [F EXCEPT !.io = @ \ {op},
                        !.errors = IF error THEN @ + 1 ELSE @,
                        !.firstError = @ \/ error,
                        !.pending = @ - 1]
    IN  IF F1.pending < 1 THEN saveCallback(F1) ELSE F1

\* done(error) of File.save
File_saveDone(F, op, error) ==
    LET F1 == [F EXCEPT !.io = @ \ {op},
                        !.errors = IF error THEN @ + 1 ELSE @,
                        !.firstError = @ \/ error,
                        !.pending = @ - 1]
    IN  IF F1.pending < 1
        THEN saveCallback([F1 EXCEPT !.fileCount = IF F1.firstError THEN @ ELSE @ + 1])
        ELSE F1

\* File.save with the overwrite check dropped.
File_saveOverwriting(F) ==
    LET F0 == [F EXCEPT !.saves = @ + 1, !.firstError = FALSE]
    IN  IF F0.dest = "none" THEN saveCallback(F0)
        ELSE IF F0.mode \in {"build", "watch", "server"}
        THEN [F0 EXCEPT !.io = {"file"}, !.pending = 1, !.fsCalls = @ + 1]
        ELSE File_saveDone([F0 EXCEPT !.pending = 1], "none", FALSE)

\* File.save(dir, callback). The default onFileValidate emits an event and
\* returns nothing, so the validation never stops the save.
File_save(F) ==
    LET F0 == [F EXCEPT !.saves = @ + 1, !.firstError = FALSE]
        modified == F0.modified \/ sourceMapEmit(F0)
        nmap == IF sourceMapPath(F0) THEN 1 ELSE 0
        iomap == IF sourceMapPath(F0) THEN {"map"} ELSE {}
    IN  IF F0.dest = "none" THEN saveCallback(F0)
        ELSE IF ~F0.generated /\ F0.dest = "same" /\ ~modified THEN saveCallback(F0)
        ELSE IF ~F0.generated /\ F0.dest = "same" /\ ~F0.overwrite
        THEN saveCallback([F0 EXCEPT !.errors = @ + 1, !.refused = @ + 1])
        ELSE IF F0.run = "server"
        THEN LET F1 == [F0 EXCEPT !.sunk = @ + nmap]
             IN  IF F1.mode = "clean" THEN [F1 EXCEPT !.sunk = @ + 1]
                 ELSE IF sourceMapEmit(F1) \/ F1.loaded
                 THEN saveCallback([F1 EXCEPT !.sunk = @ + 1])
                 ELSE [F1 EXCEPT !.reading = TRUE]
        ELSE IF F0.mode \in {"build", "watch", "server"}
        THEN [F0 EXCEPT !.io = {"file"} \cup iomap, !.pending = 1 + nmap,
                        !.fsCalls = @ + 1 + nmap]
        ELSE IF F0.mode = "clean"
        THEN [F0 EXCEPT !.io = {"file"} \cup iomap, !.pending = 1 + nmap,
                        !.fsCalls = @ + 1 + nmap]
        ELSE File_saveDone([F0 EXCEPT !.pending = 1], "none", FALSE)

\* The callback save() gave to load() on the sink branch.
sinkLoaded(F, error) ==
    saveCallback([F EXCEPT !.reading = FALSE, !.loaded = TRUE,
                           !.errors = IF error THEN @ + 1 ELSE @,
                           !.sunk = IF error THEN @ ELSE @ + 1])

----------------------------------------------------------------------------
(* SourceMapBuilder: sources and the mappings of each generated line. Indices
   are 0-based as in the source; names are left out, nothing in sources or
   in the order of the mappings depends on them. *)

\* The generated lines of the builder.
GLines == {0, 1}

\* sourcePath == undefined
NoPath == "undefined"

\* A new SourceMapBuilder; adds counts the addMapping calls made. History of
\* applySourceMap: applied, the source path each mapping is meant to refer to
\* afterwards, and the source that was to be removed.
NoMap ==
    [sources |-> <<>>, sourcesContent |-> <<>>,
     mappings |-> [l \in GLines |-> <<>>], adds |-> 0, applied |-> FALSE,
     meant |-> [l \in GLines |-> <<>>], removed |-> NoPath]

\* String.prototype.toLowerCase on the paths of the model
toLowerCase(p) == IF p = "S" THEN "s" ELSE p

\* indexOfSource(sourcePath): the exact match first, else the last one equal
\* without regard to case, else -1.
indexOfSource(sources, p) ==
    LET exact == {i \in 1..Len(sources) : sources[i] = p}
        loose == {i \in 1..Len(sources) : toLowerCase(sources[i]) = toLowerCase(p)}
    IN  IF exact # {} THEN (CHOOSE i \in exact : \A j \in exact : i <= j) - 1
        ELSE IF loose # {} THEN (CHOOSE i \in loose : \A j \in loose : i >= j) - 1
        ELSE -1

\* addSource(sourcePath): the sources afterwards
addSource(sources, p) ==
    IF indexOfSource(sources, p) < 0 THEN Append(sources, p) ELSE sources

\* The insertion of addMapping into the mappings of one line.
insertMapping(ms, m) ==
    IF ms = <<>> \/ m.generatedColumn >= ms[Len(ms)].generatedColumn
    THEN Append(ms, m)
    ELSE LET below == {i \in 1..Len(ms) : m.generatedColumn >= ms[i].generatedColumn}
         IN  IF below = {} THEN <<m>> \o ms
             ELSE LET i == CHOOSE k \in below : \A j \in below : k >= j
                  IN  IF ms[i].generatedColumn = m.generatedColumn
                      THEN [ms EXCEPT ![i] = m]
                      ELSE SubSeq(ms, 1, i) \o <<m>> \o SubSeq(ms, i + 1, Len(ms))

\* addMapping(generatedLine, generatedColumn, sourcePath, sourceLine, sourceColumn)
addMapping(B, line, col, path, sline, scol) ==
    LET srcs == IF path = NoPath THEN B.sources ELSE addSource(B.sources, path)
        m == IF path = NoPath
             THEN [generatedColumn |-> col, sourceIndex |-> Undefined,
                   sourceLine |-> Undefined, sourceColumn |-> Undefined]
             ELSE [generatedColumn |-> col, sourceIndex |-> indexOfSource(srcs, path),
                   sourceLine |-> sline, sourceColumn |-> scol]
    IN  [B EXCEPT !.sources = srcs, !.mappings[line] = insertMapping(@, m),
                  !.adds = @ + 1]

\* Infinity, above every column
Infinity == 1000

\* The path a mapping refers to
pathOf(sources, m) ==
    IF m.sourceIndex = Undefined THEN NoPath ELSE sources[m.sourceIndex + 1]

\* getSource(generatedLine, generatedColumn) with alignColumn and alignLine:
\* the last mapping of the line at or before the column, else the last
\* mapping of the nearest earlier line that has one, else nothing.
getSource(U, line, col) ==
    LET ms == U.mappings[line]
        at == {i \in 1..Len(ms) : col >= ms[i].generatedColumn}
        up == {l \in GLines : l < line /\ U.mappings[l] # <<>>}
    IN  IF at # {}
        THEN LET m == ms[CHOOSE i \in at : \A j \in at : i >= j]
             IN  [found |-> TRUE, mapping |-> m, sourcePath |-> pathOf(U.sources, m),
                  line |-> m.sourceLine,
                  column |-> m.sourceColumn + col - m.generatedColumn]
        ELSE IF up # {}
        THEN LET l == CHOOSE k \in up : \A j \in up : k >= j
                 m == U.mappings[l][Len(U.mappings[l])]
             IN  [found |-> TRUE, mapping |-> m, sourcePath |-> pathOf(U.sources, m),
                  line |-> m.sourceLine + line - l, column |-> col]
        ELSE [found |-> FALSE, mapping |-> <<>>, sourcePath |-> NoPath,
              line |-> Undefined, column |-> Undefined]

\* Array.prototype.splice(i, 1) with a 0-based i
splice1(q, i) ==
    [k \in 1..(IF i < Len(q) THEN Len(q) - 1 ELSE Len(q)) |-> IF k <= i THEN q[k] ELSE q[k + 1]]

\* mappings.splice(at, 0, m) with at the 1-based position m takes
spliceIn(q, at, m) == SubSeq(q, 1, at - 1) \o <<m>> \o SubSeq(q, at, Len(q))

\* The inner loop of applySourceMap: the mappings of other's line that lie
\* after the mapping's source column are copied behind position pos, until
\* one reaches nextColumn. S holds the sources, the mappings ms of the line
\* and the paths they are meant to have.
RECURSIVE copyTargets(_, _, _, _, _, _, _)
copyTargets(S, pos, mapping, U, ts, k, nextColumn) ==
    IF k > Len(ts) THEN [S |-> S, pos |-> pos]
    ELSE IF ts[k].generatedColumn > mapping.sourceColumn
    THEN LET column == mapping.generatedColumn + ts[k].generatedColumn - mapping.sourceColumn
         IN  IF column >= nextColumn THEN [S |-> S, pos |-> pos]
             ELSE LET path == pathOf(U.sources, ts[k])
                      srcs == IF path = NoPath THEN S.sources ELSE addSource(S.sources, path)
                      m == IF path = NoPath
                           THEN [generatedColumn |-> column, sourceIndex |-> Undefined,
                                 sourceLine |-> Undefined, sourceColumn |-> Undefined]
                           ELSE [generatedColumn |-> column,
                                 sourceIndex |-> indexOfSource(srcs, path),
                                 sourceLine |-> ts[k].sourceLine,
                                 sourceColumn |-> ts[k].sourceColumn]
                  IN  copyTargets([sources |-> srcs, ms |-> spliceIn(S.ms, pos + 1, m),
                                   meant |-> spliceIn(S.meant, pos + 1, path)],
                                  pos + 1, mapping, U, ts, k + 1, nextColumn)
    ELSE copyTargets(S, pos, mapping, U, ts, k + 1, nextColumn)

\* The update of the mapping itself: other.getSource gives the origin; when
\* other has a content for it, this.sources[sourceIndex] is assigned that
\* content.
rewrite(S, pos, mapping, U) ==
    LET source == getSource(U, mapping.sourceLine, mapping.sourceColumn)
    IN  IF source.found /\ source.sourcePath # NoPath
        THEN LET srcs == addSource(S.sources, source.sourcePath)
                 idx == indexOfSource(srcs, source.sourcePath)
                 srcs2 == IF source.mapping.sourceIndex < Len(U.sourcesContent)
                          THEN [srcs EXCEPT ![idx + 1] =
                                    U.sourcesContent[source.mapping.sourceIndex + 1]]
                          ELSE srcs
             IN  [S EXCEPT !.sources = srcs2,
                           !.ms[pos] = [generatedColumn |-> mapping.generatedColumn,
                                        sourceIndex |-> idx, sourceLine |-> source.line,
                                        sourceColumn |-> source.column],
                           !.meant[pos] = source.sourcePath]
        ELSE [S EXCEPT !.ms[pos] = [generatedColumn |-> mapping.generatedColumn,
                                    sourceIndex |-> Undefined, sourceLine |-> Undefined,
                                    sourceColumn |-> Undefined],
                       !.meant[pos] = NoPath]

\* The loop of applySourceMap over the mappings of one line, from position i.
RECURSIVE applyLine(_, _, _, _)
applyLine(S, i, U, expected) ==
    IF i > Len(S.ms) THEN S
    ELSE LET mapping == S.ms[i]
         IN  IF mapping.sourceIndex # Undefined /\ mapping.sourceIndex > expected
             THEN applyLine([S EXCEPT !.ms[i].sourceIndex = @ - 1], i + 1, U, expected)
             ELSE IF mapping.sourceIndex = expected
             THEN LET nextColumn == IF i + 1 <= Len(S.ms) /\ S.ms[i + 1].generatedColumn # 0
                                    THEN S.ms[i + 1].generatedColumn ELSE Infinity
                      C == copyTargets(S, i, mapping, U, U.mappings[mapping.sourceLine],
                                       1, nextColumn)
                  IN  applyLine(rewrite(C.S, i, mapping, U), C.pos + 1, U, expected)
             ELSE applyLine(S, i + 1, U, expected)

\* The loop of applySourceMap over the lines, from line l.
RECURSIVE applyLines(_, _, _, _)
applyLines(B, l, U, expected) ==
    IF l \notin GLines THEN B
    ELSE LET S == applyLine([sources |-> B.sources, ms |-> B.mappings[l],
                             meant |-> B.meant[l]], 1, U, expected)
         IN  applyLines([B EXCEPT !.sources = S.sources, !.mappings[l] = S.ms,
                                  !.meant[l] = S.meant], l + 1, U, expected)

\* applySourceMap(other)
applySourceMap(B, U) ==
    LET expected == IF U.file # NoPath THEN indexOfSource(B.sources, U.file) ELSE 0
        B0 == [B EXCEPT !.applied = TRUE,
                        !.meant = [l \in GLines |->
                                     [i \in 1..Len(B.mappings[l]) |->
                                        pathOf(B.sources, B.mappings[l][i])]],
                        !.removed = IF U.file # NoPath /\ expected >= 0
                                    THEN B.sources[expected + 1] ELSE NoPath]
    IN  IF expected < 0 THEN B0
        ELSE applyLines([B0 EXCEPT !.sources = splice1(@, expected),
                                   !.sourcesContent = splice1(@, expected)],
                        0, U, expected)

\* The source maps applied in the model: other maps the file "s" (named with
\* either case, or a file the builder does not know, or no file) back to
\* "a" and "t", with or without the content of its sources.
Others ==
    LET to(c, i, sc) == [generatedColumn |-> c, sourceIndex |-> i,
                         sourceLine |-> IF i = Undefined THEN Undefined ELSE 0,
                         sourceColumn |-> IF i = Undefined THEN Undefined ELSE sc]
        shapes == {<<>>, <<to(0, 0, 0)>>, <<to(1, 0, 0)>>,
                   <<to(0, 0, 0), to(1, 1, 0)>>, <<to(0, 0, 1), to(1, Undefined, 0)>>}
    IN  {[file |-> f, sources |-> <<"a", "t">>, sourcesContent |-> c,
          mappings |-> [l \in GLines |-> IF l = 0 THEN ms ELSE <<>>]] :
            f \in {"s", "S", "x", NoPath},
            c \in {<<>>, <<"text of a", "text of t">>},
            ms \in shapes}

----------------------------------------------------------------------------
(* Matcher: a glob is taken as the set of paths its compiled pattern accepts;
   the order of the patterns does not change what test returns. *)

\* The paths tested.
MPaths == {"foo.js", "goo.js"}

\* The compiled patterns: each a set of accepted paths.
Globs == SUBSET MPaths

\* new Matcher(): no pattern, no ignoreMatcher. The ignoreMatcher of the
\* model has patterns only: none of the calls made gives it an ignoreMatcher
\* of its own.
NoMatcher == [patterns |-> {}, hasIgnore |-> FALSE, ignore |-> {}, calls |-> 0]

\* add(pattern): pattern is a glob string ("glob"), a glob string that
\* starts with "!" ("not") or an array of such. An array adds its elements
\* one by one.
RECURSIVE Matcher_add(_, _)
Matcher_add(M, pattern) ==
    IF pattern = <<>> THEN M
    ELSE LET x == Head(pattern)
             M1 == IF x.kind = "not"
                   THEN [M EXCEPT !.hasIgnore = TRUE, !.ignore = @ \cup {x.glob}]
                   ELSE [M EXCEPT !.patterns = @ \cup {x.glob}]
         IN  Matcher_add(M1, Tail(pattern))

\* addIgnore(pattern): the ignoreMatcher is created, then given the patterns.
addIgnore(M, pattern) ==
    [M EXCEPT !.hasIgnore = TRUE, !.ignore = @ \cup {pattern[i].glob : i \in 1..Len(pattern)}]

\* ignoreMatcher.test(path): a Matcher without patterns accepts every path.
ignoreTest(M, path) ==
    IF M.ignore = {} THEN TRUE ELSE \E e \in M.ignore : path \in e

\* test(path)
test(M, path) ==
    IF \E i \in M.patterns : path \in i
    THEN ~(M.hasIgnore /\ ignoreTest(M, path))
    ELSE IF M.patterns = {}
    THEN ~(M.hasIgnore /\ ignoreTest(M, path))
    ELSE FALSE

----------------------------------------------------------------------------
(* Base64-VLQ on 32-bit integers. A string is the sequence of its character
   codes; the operators of JavaScript work on int32 values. *)

Two30 == 1073741824

\* -2^31
MinInt32 == (-Two30) - Two30

\* 2^s for a shift s
RECURSIVE pow2(_)
pow2(s) == IF s = 0 THEN 1 ELSE 2 * pow2(s - 1)

\* ToInt32(-x) for an int32 x
negate(x) == IF x = MinInt32 THEN MinInt32 ELSE -x

\* x << 1 on int32: bits 0..30 of x move up, bit 30 becomes the sign.
shl1(x) ==
    LET low == x % Two30
        bit30 == (x \div Two30) % 2
        twice == IF low < Two30 \div 2 THEN [hi |-> 0, lo |-> 2 * low]
                 ELSE [hi |-> 1, lo |-> 2 * (low - Two30 \div 2)]
    IN  \* the result is bit30 * (-2^31) + twice.hi * 2^30 + twice.lo
        (IF bit30 = 1 THEN MinInt32 ELSE 0) + (IF twice.hi = 1 THEN Two30 ELSE 0) + twice.lo

\* x >>> 5: the int32 read as unsigned, shifted right by five
ushr5(x) ==
    IF x >= 0 THEN x \div 32 ELSE ((x - MinInt32) \div 32) + (Two30 \div 16)

\* d << shift on int32 for a digit d of five bits; the shift count is taken
\* modulo 32 and what passes bit 31 is lost.
shl(d, shift) ==
    LET s == shift % 32
        kept == d % pow2(IF s > 26 THEN 32 - s ELSE 5)
    IN  IF s <= 25 THEN d * pow2(s)
        ELSE LET top == kept \div pow2(31 - s)
                 rest == kept % pow2(31 - s)
             IN  (IF top = 1 THEN MinInt32 ELSE 0) + rest * pow2(s)

\* base64Chars[i].charCodeAt(0)
base64Chars(i) ==
    IF i < 26 THEN 65 + i
    ELSE IF i < 52 THEN 71 + i
    ELSE IF i < 62 THEN i - 4
    ELSE IF i = 62 THEN 43 ELSE 47

\* The digit a character code stands for in decodeBase64Vlq
digitOf(ch) ==
    IF 65 <= ch /\ ch <= 90 THEN ch - 65
    ELSE IF 97 <= ch /\ ch <= 122 THEN ch - 71
    ELSE IF 48 <= ch /\ ch <= 57 THEN ch + 4
    ELSE IF ch = 43 THEN 62 ELSE 63

\* The do-while loop of encodeBase64Vlq
RECURSIVE encodeLoop(_, _)
encodeLoop(vlq, text) ==
    LET digit == vlq % 32
        rest == ushr5(vlq)
        out == Append(text, base64Chars(IF rest > 0 THEN digit + 32 ELSE digit))
    IN  IF rest > 0 THEN encodeLoop(rest, out) ELSE out

\* encodeBase64Vlq(value)
encodeBase64Vlq(value) ==
    encodeLoop(IF value < 0 THEN shl1(negate(value)) + 1 ELSE shl1(value), <<>>)

\* The do-while loop of decodeBase64Vlq from position index
RECURSIVE decodeLoop(_, _, _, _)
decodeLoop(value, index, vlq, shift) ==
    LET digit == digitOf(value[index])
        sum == vlq + shl(digit % 32, shift)
    IN  IF digit >= 32 /\ index < Len(value)
        THEN decodeLoop(value, index + 1, sum, shift + 5)
        ELSE sum

\* decodeBase64Vlq(value, {index: 0})
decodeBase64Vlq(value) ==
    LET vlq == decodeLoop(value, 1, 0, 0)
    IN  IF vlq % 2 = 1 THEN -(vlq \div 2) ELSE vlq \div 2

\* Nothing encoded yet.
NoVlq == [phase |-> "new", n |-> 0, text |-> <<>>, out |-> 0]

\* The integers encoded: the small ones, and those around the powers of two
\* up to the ends of the 32-bit range.
VlqInputs ==
    (-MaxN .. MaxN)
    \cup {s * (pow2(k) + d) : s \in {-1, 1}, k \in {5, 10, 15, 20, 25, 29, 30}, d \in {-1, 0, 1}}
    \cup {Two30 + (Two30 - 1), (Two30 - 1) + (Two30 - 1), MinInt32, MinInt32 + 1}

----------------------------------------------------------------------------
(* The filesystem facade (utility/fs.ts): retries, the list of delayed calls
   and its timer. The program of the model makes two calls, each once and
   in any order:
       copyFile(from, to, callback, n)
       readDir(path, callback, n)     // or readFile(...), or writeFile(...)
   A native call in flight, a pending setTimeout(f, 7, ...) and a delayed
   call are records [id, op, side, tryCount, pos]: the call of the program
   they belong to, the function, the side of copyFile ("r", "w", "-" for
   none), the tryCount argument and the position of the copy loop. *)

FsCalls == {1, 2}

\* The function each call of the program may be
FsKinds(c) == IF c = 1 THEN {"copyFile"} ELSE {"readDir", "readFile", "writeFile"}

\* What a native call reports: success, EMFILE/ENFILE, ENOENT, or another
\* error (EIO, EACCES, EBUSY ...)
Outcomes == {"ok", "EMFILE", "ENOENT", "EIO"}

NoFs ==
    [ kind     |-> [c \in FsCalls |-> "none"],   \* the call the program made, "none" before
      n        |-> [c \in FsCalls |-> 0],        \* its tryCount argument
      fdr      |-> FALSE,                        \* copyFile: fdr !== undefined
      fdw      |-> FALSE,                        \* copyFile: fdw !== undefined
      running  |-> {},                           \* native calls in flight
      retries  |-> {},                           \* setTimeout(f, 7, ...) pending
      delayed  |-> <<>>,                         \* the list of delayed calls, head first
      timer    |-> "undefined",                  \* the variable timer: "undefined", "armed", "fired"
      attempts |-> [c \in FsCalls |-> [s \in {"r", "w", "-"} |-> 0]],  \* history: native calls issued
      called   |-> [c \in FsCalls |-> 0] ]       \* history: invocations of the callback

\* delay(func, args): the call goes to the tail of the list; the timer is
\* armed unless the variable holds one.
delay(F, a) ==
    [F EXCEPT !.delayed = Append(@, a),
              !.timer = IF @ = "undefined" THEN "armed" ELSE @]

\* The native function is called: nfs.readdir, nfs.readFile, nfs.writeFile,
\* nfs.open, nfs.read, nfs.mkdir
issue(F, a) ==
    [F EXCEPT !.running = @ \cup {a},
              !.attempts[a.id][a.side] =
                  IF a.op \in {"readDir", "readFile", "writeInternal", "open"} THEN @ + 1 ELSE @]

\* resolve(): the head of the list is taken off and called again, then the
\* timer is cleared.
resolve(F) ==
    IF F.delayed # <<>>
    THEN [issue([F EXCEPT !.delayed = Tail(@)], Head(F.delayed)) EXCEPT !.timer = "undefined"]
    ELSE F

\* callback(error, ...) of the call of the program
callback(F, id) == [F EXCEPT !.called[id] = @ + 1]

\* setTimeout(func, 7, ..., tryCount - 1)
retryLater(F, a) == [F EXCEPT !.retries = @ \cup {[a EXCEPT !.tryCount = @ - 1]}]

\* ensureParentDir(path, () => func(..., tryCount - 1), tryCount): createDir
\* calls back after its own attempts, whatever their outcome.
ensureParentDir(F, a) == issue(F, [a EXCEPT !.op = "mkdir"])

\* The callback readDir gives to nfs.readdir
readDir(F, a, out) ==
    IF out \in {"ok", "ENOENT"} THEN resolve(callback(F, a.id))
    ELSE IF out = "EMFILE" THEN delay(F, [a EXCEPT !.tryCount = @ - 1])
    ELSE IF a.tryCount = 0 THEN resolve(callback(F, a.id))
    ELSE retryLater(F, a)

\* The callback readFile gives to nfs.readFile
readFile(F, a, out) ==
    IF out \in {"ok", "ENOENT"} \/ a.tryCount = 0 THEN resolve(callback(F, a.id))
    ELSE IF out = "EMFILE" THEN delay(F, [a EXCEPT !.tryCount = @ - 1])
    ELSE retryLater(F, a)

\* The callback writeInternal gives to nfs.writeFile
writeInternal(F, a, out) ==
    IF out = "ok" \/ a.tryCount = 0 THEN resolve(callback(F, a.id))
    ELSE IF out = "ENOENT" THEN ensureParentDir(F, a)
    ELSE IF out = "EMFILE" THEN delay(F, [a EXCEPT !.tryCount = @ - 1])
    ELSE retryLater(F, a)

\* copyFile, end(error): each descriptor that is open is closed.
copyFile_end(F, id) ==
    [F EXCEPT !.running = @
                  \cup (IF F.fdw THEN {[id |-> id, op |-> "close", side |-> "w", tryCount |-> 0, pos |-> 0]}
                        ELSE {})
                  \cup (IF F.fdr THEN {[id |-> id, op |-> "close", side |-> "r", tryCount |-> 0, pos |-> 0]}
                        ELSE {})]

\* copyFile, the callbacks of nfs.close
copyFile_closed(F, a) ==
    LET F1 == IF a.side = "w" THEN [F EXCEPT !.fdw = FALSE] ELSE [F EXCEPT !.fdr = FALSE]
    IN  IF (a.side = "w" /\ ~F1.fdr) \/ (a.side = "r" /\ ~F1.fdw) THEN callback(F1, a.id) ELSE F1

\* copyFile, the callback open gives to nfs.open
copyFile_open(F, a, out) ==
    IF out = "EMFILE" THEN delay(F, [a EXCEPT !.tryCount = @ - 1])
    ELSE IF out = "ENOENT" /\ a.side = "w" /\ a.tryCount > 0 THEN ensureParentDir(F, a)
    ELSE IF out # "ok"
    THEN IF a.tryCount = 0 THEN copyFile_end(F, a.id) ELSE retryLater(F, a)
    ELSE LET F1 == IF a.side = "r" THEN [F EXCEPT !.fdr = TRUE] ELSE [F EXCEPT !.fdw = TRUE]
             F2 == IF F1.fdr /\ F1.fdw
                   THEN issue(F1, [a EXCEPT !.op = "read", !.side = "-", !.pos = 0])
                   ELSE F1
         IN  resolve(F2)

\* copyFile, the callback copy gives to nfs.read; out is "ok" for bytes
\* read, "ENOENT" standing for bytesRead = 0, or an error
copyFile_read(F, a, out) ==
    IF out \in {"EMFILE", "EIO"}
    THEN IF a.tryCount = 0 THEN copyFile_end(F, a.id) ELSE retryLater(F, a)
    ELSE IF out = "ENOENT" THEN copyFile_end(F, a.id)
    ELSE issue(F, [a EXCEPT !.op = "write"])

\* copyFile, the callback copy gives to nfs.write; "ENOENT" stands for
\* writen < buffer.length
copyFile_written(F, a, out) ==
    IF out \in {"EMFILE", "EIO"}
    THEN IF a.tryCount = 0 THEN copyFile_end(F, a.id)
         ELSE retryLater(F, [a EXCEPT !.op = "read"])
    ELSE IF out = "ENOENT" THEN copyFile_end(F, a.id)
    ELSE issue(F, [a EXCEPT !.op = "read", !.pos = @ + 1])

\* The callback of createDir under ensureParentDir: the call that failed is
\* made again with tryCount - 1.
ensured(F, a) ==
    issue(F, [a EXCEPT !.op = IF a.side = "w" THEN "open" ELSE "writeInternal",
                       !.tryCount = @ - 1])

\* The callback of the native call a, by the function that made it
completed(F, a, out) ==
    CASE a.op = "readDir" -> readDir(F, a, out)
      [] a.op = "readFile" -> readFile(F, a, out)
      [] a.op = "writeInternal" -> writeInternal(F, a, out)
      [] a.op = "open" -> copyFile_open(F, a, out)
      [] a.op = "read" -> copyFile_read(F, a, out)
      [] a.op = "write" -> copyFile_written(F, a, out)
      [] a.op = "close" -> copyFile_closed(F, a)
      [] OTHER -> ensured(F, a)

\* The call of the program: copyFile opens both sides at once.
fsCall(F, id, kind, n) ==
    LET F1 == [F EXCEPT !.kind[id] = kind, !.n[id] = n]
        a(op, side) == [id |-> id, op |-> op, side |-> side, tryCount |-> n, pos |-> 0]
    IN  CASE kind = "copyFile" -> issue(issue(F1, a("open", "r")), a("open", "w"))
          [] kind = "readDir" -> issue(F1, a("readDir", "-"))
          [] kind = "readFile" -> issue(F1, a("readFile", "-"))
          [] OTHER -> issue(F1, a("writeInternal", "-"))

----------------------------------------------------------------------------
(* walk (utility/fs.ts), the asynchronous form, over the tree
       d/        d/f (a file)        d/s/ (an empty folder)
   glob starts one walk for each of two patterns; the walks share
   options.stats and options.entries when the caches are on. getStat and
   readDir call back once, with a result or with an error. A request in
   flight is a record [op, path, w]: w is the walk that issued it. *)

TPaths == {"d", "d/f", "d/s"}

Walks == {1, 2}

\* stats.isDirectory() of the path on the disk
isDirectory(p) == p \in {"d", "d/s"}

\* What readdir returns for the folder, in its order
entriesIn(p) == IF p = "d" THEN <<"d/f", "d/s">> ELSE <<>>

NoWalk ==
    [ cache    |-> FALSE,                           \* options.stats and options.entries are given
      root     |-> [w \in Walks |-> "none"],        \* the path walk() was called with, "none" before
      pending  |-> [w \in Walks |-> 0],             \* pending of the walk
      stats    |-> [p \in TPaths |-> "none"],       \* options.stats[path] when it holds stats: "file", "dir"
      statQ    |-> [p \in TPaths |-> <<>>],         \* options.stats[path] when it holds callbacks
      entries  |-> [p \in TPaths |-> FALSE],        \* options.entries[path] holds the entries
      entQ     |-> [p \in TPaths |-> <<>>],         \* options.entries[path] when it holds callbacks
      inflight |-> {},                              \* getStat and readDir calls that have not called back
      globLeft |-> 0,                               \* glob: walks that have not ended
      queued   |-> {},                              \* history: statCallbacks pushed behind a getStat in flight
      calls    |-> [w \in Walks |-> [p \in TPaths |-> 0]],  \* history: statCallback invocations
      listed   |-> [w \in Walks |-> {}],            \* history: folders given to the walk callback
      errors   |-> [w \in Walks |-> 0],             \* history: invocations of the error callback
      ends     |-> [w \in Walks |-> 0],             \* history: invocations of the end callback
      rootEnds |-> 0 ]                              \* history: result.end() calls of src()

RECURSIVE processFileOrDir(_, _, _)
RECURSIVE statCallback(_, _, _, _)
RECURSIVE processDir(_, _, _)
RECURSIVE readDirCallback(_, _, _, _)
RECURSIVE eachEntry(_, _, _, _)
RECURSIVE eachCallback(_, _, _, _, _, _)

\* glob's end of one walk, and the end callback src() gives to glob:
\* if (--pending < 1) result.end(), with pending = 1
walkEnded(K, w) ==
    LET K1 == [K EXCEPT !.ends[w] = @ + 1, !.globLeft = @ - 1]
    IN  IF K1.globLeft < 1 THEN [K1 EXCEPT !.rootEnds = @ + 1] ELSE K1

\* if (--pending < 1) options.end()
countDown(K, w) ==
    LET K1 == [K EXCEPT !.pending[w] = @ - 1]
    IN  IF K1.pending[w] < 1 THEN walkEnded(K1, w) ELSE K1

\* walk: processDir without pending++
processDirUncounted(K, w, p) ==
    IF K.cache
    THEN IF K.entQ[p] # <<>> THEN [K EXCEPT !.entQ[p] = Append(@, w)]
         ELSE IF K.entries[p] THEN readDirCallback(K, w, p, FALSE)
         ELSE [K EXCEPT !.entQ[p] = <<w>>,
                        !.inflight = @ \cup {[op |-> "readDir", path |-> p, w |-> w]}]
    ELSE [K EXCEPT !.inflight = @ \cup {[op |-> "readDir", path |-> p, w |-> w]}]

\* walk: processFileOrDir asking getStat whatever the cache holds
processFileOrDirUncached(K, w, p) ==
    LET K1 == [K EXCEPT !.pending[w] = @ + 1]
    IN  IF K1.cache /\ K1.statQ[p] = <<>> /\ K1.stats[p] # "none"
        THEN statCallback(K1, w, p, FALSE)
        ELSE [K1 EXCEPT !.statQ[p] = IF K1.cache THEN Append(@, w) ELSE @,
                        !.inflight = @ \cup {[op |-> "stat", path |-> p, w |-> w]}]

\* walk: processFileOrDir(path)
processFileOrDir(K, w, p) ==
    LET K1 == [K EXCEPT !.pending[w] = @ + 1]
    IN  IF K1.cache
        THEN IF K1.statQ[p] # <<>>
             THEN [K1 EXCEPT !.statQ[p] = Append(@, w),
                             !.queued = @ \cup {[w |-> w, path |-> p]}]
             ELSE IF K1.stats[p] # "none" THEN statCallback(K1, w, p, FALSE)
             ELSE [K1 EXCEPT !.statQ[p] = <<w>>,
                             !.inflight = @ \cup {[op |-> "stat", path |-> p, w |-> w]}]
        ELSE [K1 EXCEPT !.inflight = @ \cup {[op |-> "stat", path |-> p, w |-> w]}]

\* walk: statCallback(path, error, stats)
statCallback(K, w, p, error) ==
    LET K1 == [K EXCEPT !.calls[w][p] = @ + 1]
        K2 == IF error THEN [K1 EXCEPT !.errors[w] = @ + 1]
              ELSE IF isDirectory(p) THEN processDir(K1, w, p)
              ELSE K1
    IN  countDown(K2, w)

\* walk: processDir(path, stats)
processDir(K, w, p) ==
    LET K1 == [K EXCEPT !.pending[w] = @ + 1]
    IN  IF K1.cache
        THEN IF K1.entQ[p] # <<>> THEN [K1 EXCEPT !.entQ[p] = Append(@, w)]
             ELSE IF K1.entries[p] THEN readDirCallback(K1, w, p, FALSE)
             ELSE [K1 EXCEPT !.entQ[p] = <<w>>,
                             !.inflight = @ \cup {[op |-> "readDir", path |-> p, w |-> w]}]
        ELSE [K1 EXCEPT !.inflight = @ \cup {[op |-> "readDir", path |-> p, w |-> w]}]

\* for (const entry of entries) processFileOrDir(np.join(path, entry))
eachEntry(K, w, es, k) ==
    IF k > Len(es) THEN K ELSE eachEntry(processFileOrDir(K, w, es[k]), w, es, k + 1)

\* walk: readDirCallback(path, error, stats, entries)
readDirCallback(K, w, p, error) ==
    LET K1 == IF error THEN [K EXCEPT !.errors[w] = @ + 1]
              ELSE eachEntry([K EXCEPT !.listed[w] = @ \cup {p}], w, entriesIn(p), 1)
    IN  countDown(K1, w)

\* for (const func of cache) func(path, error, ...)
eachCallback(K, op, q, p, error, k) ==
    IF k > Len(q) THEN K
    ELSE eachCallback(IF op = "stat" THEN statCallback(K, q[k], p, error)
                      ELSE readDirCallback(K, q[k], p, error),
                      op, q, p, error, k + 1)

\* The callback processFileOrDir gives to getStat; x is the request
statDone(K, x, error) ==
    IF K.cache
    THEN eachCallback([K EXCEPT !.stats[x.path] = IF error THEN "none"
                                                  ELSE IF isDirectory(x.path) THEN "dir" ELSE "file",
                                !.statQ[x.path] = <<>>],
                      "stat", K.statQ[x.path], x.path, error, 1)
    ELSE statCallback(K, x.w, x.path, error)

\* The callback processDir gives to readDir
readDirDone(K, x, error) ==
    IF K.cache
    THEN eachCallback([K EXCEPT !.entries[x.path] = ~error, !.entQ[x.path] = <<>>],
                      "readDir", K.entQ[x.path], x.path, error, 1)
    ELSE readDirCallback(K, x.w, x.path, error)

----------------------------------------------------------------------------
(* FSWatcher.add (utility/fs.ts) as addWatch calls it: no cache is passed, so
   _initCache fills _fsCache from the disk before the callback. A path is the
   sequence of its segments below the base, Base itself being the empty one.
   The loop over the entries of a folder is for (const entry in entries),
   which yields the indices, so the paths asked for under the base are
   <<0>>, <<1>>, ... Whatever is found there, a folder under the base is
   empty. *)

Base == <<>>

IPaths == {Base} \cup {<<k>> : k \in 0..(MaxEntries - 1)}

\* What fs.stat reports: an error, or stats of a file, of a folder, or of
\* something that is neither (a socket, a FIFO, a device)
StatResults == {"error", "file", "dir", "other"}

NoInit ==
    [ added    |-> FALSE,     \* watcher.add(base, callback) was called
      locks    |-> 0,         \* the "watch" locks addWatch holds
      pending  |-> 0,         \* context.pending
      error    |-> FALSE,     \* context.error is set
      inflight |-> {},        \* fs.stat and fs.readdir calls that have not called back
      timers   |-> {},        \* setTimeout(..., this.delay) pending after EMFILE
      retried  |-> 0,         \* history: readdir retries after EMFILE
      cached   |-> {},        \* the keys of _fsCache
      called   |-> 0 ]        \* history: invocations of the callback of add

\* cacheReady(error): the native watcher is created, then the callback is
\* called; the callback of addWatch unlocks the queue.
cacheReady(C) == [C EXCEPT !.called = @ + 1, !.locks = unlock(@, "watch")]

\* if (--context.pending > 0) return; context.callback(context.error)
initDone(C) ==
    LET C1 == [C EXCEPT !.pending = @ - 1]
    IN  IF C1.pending > 0 THEN C1 ELSE cacheReady(C1)

RECURSIVE initEntries(_, _, _, _)

\* FSWatcher._initCache(path, context, stats, entries): stats is "none" when
\* not given, entries is the length of the array, -1 when not given
initCache(C, p, stats, entries) ==
    CASE stats = "none" ->
            [C EXCEPT !.pending = @ + 1, !.inflight = @ \cup {[op |-> "stat", path |-> p]}]
      [] stats = "file" -> initDone([C EXCEPT !.cached = @ \cup {p}])
      [] stats = "dir" ->
            IF entries < 0
            THEN [C EXCEPT !.inflight = @ \cup {[op |-> "readdir", path |-> p]}]
            ELSE initDone(initEntries([C EXCEPT !.cached = @ \cup {p}], p, entries, 0))
      [] OTHER -> C

\* for (const entry in entries) this._initCache(np.join(path, entry), context)
initEntries(C, p, entries, k) ==
    IF k >= entries THEN C
    ELSE initEntries(initCache(C, Append(p, k), "none", -1), p, entries, k + 1)

\* _initCache, the callback of fs.stat
initStat(C, p, res) ==
    IF res = "error" THEN initDone([C EXCEPT !.error = TRUE])
    ELSE initCache(C, p, res, -1)

\* _initCache, the callback of fs.readdir: error is "EMFILE", "EIO" or
\* "none", and then n is the number of entries
initReaddir(C, p, error, n) ==
    IF error = "EMFILE" THEN [C EXCEPT !.timers = @ \cup {p}, !.retried = @ + 1]
    ELSE IF error = "EIO" THEN initDone([C EXCEPT !.error = TRUE])
    ELSE initCache(C, p, "dir", n)

\* addWatch: asyncQueue.lock("watch " + base); watcher.add(base, callback)
addWatch(C) ==
    initCache([C EXCEPT !.added = TRUE, !.locks = lock(@, "watch")], Base, "none", -1)

----------------------------------------------------------------------------
(* The variables of the later specifications before their first step *)

YInit ==
    /\ fs = NoFs
    /\ wk = NoWalk
    /\ ic = NoInit
    /\ dp = NoDeps

----------------------------------------------------------------------------
(* SpecQueue: the queue with abstract jobs, as asyncQueueTest drives it *)

JobKinds == {"sync", "done", "promise"}

QInit ==
    /\ queue = <<>>
    /\ lockCount = 0
    /\ running = 0
    /\ nextId = 0
    /\ started = <<>>
    /\ finished = {}
    /\ enqLocked = {}
    /\ buildMode = "build"
    /\ pkind = "sync"
    /\ created = [r \in Roots |-> FALSE]
    /\ attached = [r \in Roots |-> FALSE]
    /\ toFind = [r \in Roots |-> {}]
    /\ globEnded = [r \in Roots |-> FALSE]
    /\ fl = NoLists
    /\ deps = [p \in Paths |-> {}]
    /\ watched = {}
    /\ watchAdding = {}
    /\ rootLists = <<>>
    /\ changed = {}
    /\ deleted = {}
    /\ nEvents = 0
    /\ summaries = 0
    /\ disk = [at |-> [p \in WPaths |-> 1], clock |-> 1]
    /\ fw = NoWatcher
    /\ pp = NoPipes
    /\ lf = NoFile
    /\ sv = NoSave
    /\ sm = NoMap
    /\ mt = NoMatcher
    /\ vq = NoVlq
    /\ YInit

\* q.enqueue(job) / then(job)
QThen ==
    /\ nextId < MaxJobs
    /\ \E k \in JobKinds : then(k)
    /\ UNCHANGED <<pvars, lvars, uvars, lockCount, bvars, wvars, fvars>>

\* q.lock()
QLock ==
    /\ lockCount < MaxLocks
    /\ \E key \in Keys : lockCount' = lock(lockCount, key)
    /\ UNCHANGED <<pvars, lvars, uvars, queue, running, nextId, started, finished, enqLocked, bvars, wvars, fvars>>

\* q.unlock(), from a timer or an I/O callback of whoever took the lock
QUnlock ==
    /\ lockCount > 0
    /\ \E key \in Keys : lockCount' = unlock(lockCount, key)
    /\ UNCHANGED <<pvars, lvars, uvars, queue, running, nextId, started, finished, enqLocked, bvars, wvars, fvars>>

\* The drain: the head job starts.
QStart ==
    /\ \E k \in JobKinds : startJob(k, k = "sync")
    /\ UNCHANGED <<pvars, lvars, uvars, lockCount, bvars, wvars, fvars>>

\* done() is invoked, or the returned promise settles.
QJobDone ==
    /\ running # 0
    /\ complete(running)
    /\ UNCHANGED <<pvars, lvars, uvars, queue, lockCount, nextId, started, enqLocked, bvars, wvars, fvars>>

QNext == QThen \/ QLock \/ QUnlock \/ QStart \/ QJobDone

SpecQueue == QInit /\ [][QNext]_vars

----------------------------------------------------------------------------
(* SpecBuild: run(task) in each build mode *)

\* The jobs run() has queued when it returns.
InitJobs ==
    CASE buildMode = "server" -> <<"listen", "task", "watch", "summary">>
      [] buildMode = "watch"  -> <<"task", "watch", "summary">>
      [] OTHER                -> <<"task", "summary">>

BInit ==
    /\ buildMode \in BuildModes
    /\ pkind \in ProcessorKinds
    /\ queue = [k \in 1..Len(InitJobs) |-> [id |-> k, kind |-> InitJobs[k]]]
    /\ nextId = Len(InitJobs)
    /\ lockCount = 0
    /\ running = 0
    /\ started = <<>>
    /\ finished = {}
    /\ enqLocked = {}
    /\ created = [r \in Roots |-> FALSE]
    /\ attached = [r \in Roots |-> FALSE]
    /\ toFind = [r \in Roots |-> {}]
    /\ globEnded = [r \in Roots |-> FALSE]
    /\ fl = NoLists
    /\ deps = [p \in Paths |-> {}]
    /\ watched = {}
    /\ watchAdding = {}
    /\ rootLists = <<>>
    /\ changed = {}
    /\ deleted = {}
    /\ nEvents = 0
    /\ summaries = 0
    /\ disk = [at |-> [p \in WPaths |-> 1], clock |-> 1]
    /\ fw = NoWatcher
    /\ pp = NoPipes
    /\ lf = NoFile
    /\ sv = NoSave
    /\ sm = NoMap
    /\ mt = NoMatcher
    /\ vq = NoVlq
    /\ YInit

Commit(S) ==
    /\ fl' = flOf(S)
    /\ deps' = S.deps
    /\ watched' = S.watched

EnvsFor(ps) ==
    {e \in Envs : /\ \A p \in Paths \ ps : e.add[p] = "keep" /\ e.save[p] = "write"
                  /\ e.dep => (buildMode \in {"preview", "server"} /\ "a" \in ps)}

\* The task job: the task calls src() twice and returns.
StartTask ==
    /\ startJob("task", TRUE)
    /\ \E found \in {{}, {"c"}} :
         LET T == src(src([lockCount |-> lockCount, created |-> created, toFind |-> toFind],
                          1, {"a"}), 2, found)
         IN  /\ lockCount' = T.lockCount
             /\ created' = T.created
             /\ toFind' = T.toFind
    /\ rootLists' = IF Watching THEN <<1, 2>> ELSE <<>>
    /\ UNCHANGED <<pvars, lvars, uvars, buildMode, pkind, attached, globEnded, fl, watched, watchAdding,
                   nEvents, summaries, wvars, fvars>>

\* The setImmediate callback of src(): result.then(() => asyncQueue.unlock()).
\* Nothing orders it against the callbacks of glob, which come from fs calls.
AttachThen(r) ==
    /\ created[r] /\ ~attached[r]
    /\ r = 2 => attached[1]
    /\ attached' = [attached EXCEPT ![r] = TRUE]
    /\ UNCHANGED <<pvars, lvars, uvars, qvars, buildMode, pkind, created, toFind, globEnded, fl, watched,
                   watchAdding, rootLists, nEvents, summaries, wvars, fvars>>

\* glob reports a file: result.add(result.createFile(path))
GlobFile(r, p) ==
    /\ created[r] /\ ~globEnded[r] /\ p \in toFind[r]
    /\ toFind' = [toFind EXCEPT ![r] = @ \ {p}]
    /\ \E env \in EnvsFor({p}) : Commit(add(Pack, rootList(r), createFile(p, FALSE), env))
    /\ UNCHANGED <<pvars, lvars, uvars, qvars, buildMode, pkind, created, attached, globEnded, watchAdding,
                   rootLists, nEvents, summaries, changed, deleted, fvars>>

\* glob has finished: result.end()
GlobEnd(r) ==
    /\ created[r] /\ ~globEnded[r] /\ toFind[r] = {}
    /\ globEnded' = [globEnded EXCEPT ![r] = TRUE]
    /\ Commit(end(Pack, rootList(r)))
    /\ UNCHANGED <<pvars, lvars, uvars, qvars, buildMode, pkind, created, attached, toFind, watchAdding,
                   rootLists, nEvents, summaries, changed, deleted, fvars>>

\* File.load calls back into FileList.add: _onLoad runs the add hook, which
\* may throw; nothing between the hook and the event loop catches.
LoadDone(x) ==
    /\ x \in fl.inflight /\ x.op = "load"
    /\ \E err \in BOOLEAN :
         LET f == [x.file EXCEPT !.loaded = TRUE, !.err = @ \/ err]
             S == [Pack EXCEPT !.inflight = @ \ {x}]
         IN  \/ \E env \in EnvsFor({f.path}) : Commit(onLoad(S, x.list, f, env))
             \/ Commit([S EXCEPT !.thrown = @ \cup {[list |-> x.list, path |-> f.path]}])
    /\ UNCHANGED <<pvars, lvars, uvars, qvars, buildMode, pkind, created, attached, toFind, globEnded,
                   watchAdding, rootLists, nEvents, summaries, changed, deleted, fvars>>

\* An asynchronous add hook calls done(add).
AddDone(x) ==
    /\ x \in fl.inflight /\ x.op = "add"
    /\ \E env \in EnvsFor({x.file.path}) :
         Commit(onAdd([Pack EXCEPT !.inflight = @ \ {x}], x.list, x.file,
                      env.add[x.file.path], env))
    /\ UNCHANGED <<pvars, lvars, uvars, qvars, buildMode, pkind, created, attached, toFind, globEnded,
                   watchAdding, rootLists, nEvents, summaries, changed, deleted, fvars>>

\* File.save's done(error): writeFile, copyFile or deleteFile has called back;
\* fileSave is emitted when there was no error, then dest's callback runs.
SaveDone(x) ==
    /\ x \in fl.inflight /\ x.op = "save"
    /\ \E err \in BOOLEAN, inc \in BOOLEAN :
         LET f == [x.file EXCEPT !.err = @ \/ err]
             S == [Pack EXCEPT !.inflight = @ \ {x}]
             S1 == IF err THEN S ELSE onFileSave(written(S, x.file, inc), x.file, inc)
         IN  /\ inc => (~err /\ x.file.path = "a")
             /\ Commit(onAdd(S1, x.list, f, "keep", NoEnv))
    /\ UNCHANGED <<pvars, lvars, uvars, qvars, buildMode, pkind, created, attached, toFind, globEnded,
                   watchAdding, rootLists, nEvents, summaries, changed, deleted, fvars>>

\* File.save with the sink: this.load has called back, the buffer went to the
\* sink unless the load failed, then dest's callback runs.
SinkLoadDone(x) ==
    /\ x \in fl.inflight /\ x.op = "sinkload"
    /\ \E err \in BOOLEAN :
         LET f == [x.file EXCEPT !.loaded = TRUE, !.err = @ \/ err]
             S == [Pack EXCEPT !.inflight = @ \ {x}]
         IN  Commit(onAdd(IF err THEN S ELSE written(saved(S, f, "write"), f, FALSE),
                          x.list, f, "keep", NoEnv))
    /\ UNCHANGED <<pvars, lvars, uvars, qvars, buildMode, pkind, created, attached, toFind, globEnded,
                   watchAdding, rootLists, nEvents, summaries, changed, deleted, fvars>>

\* An asynchronous end hook calls done(): _onEnd. The hook of the list src()
\* appended first releases the root list lock.
EndHookDone(i) ==
    /\ fl.ending[i] > 0
    /\ lockCount' = IF i \in {4, 6} THEN unlock(lockCount, "RootFileList") ELSE lockCount
    /\ Commit(onEnd([Pack EXCEPT !.ending[i] = @ - 1], i))
    /\ UNCHANGED <<pvars, lvars, uvars, queue, running, nextId, started, finished, enqLocked, buildMode, pkind,
                   created, attached, toFind, globEnded, watchAdding, rootLists, nEvents,
                   summaries, changed, deleted, fvars>>

\* The Watcher's second job: addWatch for each root list.
StartWatchInit ==
    /\ startJob("watch", TRUE)
    /\ lockCount' = lockCount + Len(rootLists)
    /\ watchAdding' = {rootLists[k] : k \in 1..Len(rootLists)}
    /\ UNCHANGED <<pvars, lvars, uvars, buildMode, pkind, created, attached, toFind, globEnded, fl, watched,
                   rootLists, nEvents, summaries, wvars, fvars>>

\* watcher.add(base, callback) calls back.
WatchAdded(r) ==
    /\ r \in watchAdding
    /\ watchAdding' = watchAdding \ {r}
    /\ lockCount' = unlock(lockCount, "watch")
    /\ watched' = watched \cup {p \in Paths : Match(r, p)}
    /\ UNCHANGED <<pvars, lvars, uvars, queue, running, nextId, started, finished, enqLocked, buildMode, pkind,
                   created, attached, toFind, globEnded, fl, rootLists, nEvents, summaries,
                   wvars, fvars>>

\* Server.start's job: this.listen(undefined, done)
StartListen ==
    /\ startJob("listen", FALSE)
    /\ UNCHANGED <<pvars, lvars, uvars, lockCount, bvars, wvars, fvars>>

ListenDone ==
    /\ running # 0
    /\ complete(running)
    /\ UNCHANGED <<pvars, lvars, uvars, queue, lockCount, nextId, started, enqLocked, bvars, wvars, fvars>>

\* run()'s last job logs the summary.
StartSummary ==
    /\ startJob("summary", TRUE)
    /\ summaries' = summaries + 1
    /\ UNCHANGED <<pvars, lvars, uvars, lockCount, buildMode, pkind, created, attached, toFind, globEnded, fl,
                   watched, watchAdding, rootLists, nEvents, wvars, fvars>>

\* Watcher.onChange / onCreate (kind "change") and Watcher.onDelete
FsEvent(p, kind) ==
    /\ Watching /\ p \in watched /\ nEvents < MaxEvents
    /\ LET M  == marksOf(changed, deleted)
           M1 == IF kind = "delete" THEN addDelete(M, deps, p) ELSE addChange(M, deps, p)
       IN  changed' = pathsIn(M1.changed) /\ deleted' = pathsIn(M1.deleted)
    /\ rebuild
    /\ nEvents' = nEvents + 1
    /\ UNCHANGED <<pvars, lvars, uvars, lockCount, buildMode, pkind, created, attached, toFind, globEnded, fl,
                   watched, watchAdding, rootLists, summaries, deps, fvars>>

\* The rebuild job
StartRebuild ==
    /\ startJob("rebuild", TRUE)
    /\ \E env \in EnvsFor(changed \cup deleted) :
         LET S == rebuildLists(Pack @@ [lockCount |-> lockCount], 1, env)
         IN  Commit(S) /\ lockCount' = S.lockCount
    /\ changed' = {}
    /\ deleted' = {}
    /\ UNCHANGED <<pvars, lvars, uvars, buildMode, pkind, created, attached, toFind, globEnded, watchAdding,
                   rootLists, nEvents, summaries, fvars>>

BNext ==
    \/ StartTask
    \/ \E r \in Roots : AttachThen(r)
    \/ \E r \in Roots, p \in Paths : GlobFile(r, p)
    \/ \E r \in Roots : GlobEnd(r)
    \/ \E x \in fl.inflight : LoadDone(x)
    \/ \E x \in fl.inflight : AddDone(x)
    \/ \E x \in fl.inflight : SaveDone(x)
    \/ \E x \in fl.inflight : SinkLoadDone(x)
    \/ \E i \in Lists : EndHookDone(i)
    \/ StartWatchInit
    \/ \E r \in Roots : WatchAdded(r)
    \/ StartListen
    \/ ListenDone
    \/ StartSummary
    \/ \E p \in Paths, kind \in {"change", "delete"} : FsEvent(p, kind)
    \/ StartRebuild

SpecBuild == BInit /\ [][BNext]_vars

----------------------------------------------------------------------------
(* Claims on the AsyncQueue *)

\* C1: a job begins executing only while lockCount = 0; a job enqueued while
\* the queue was locked starts only once every lock has been released.
C1_NoStartWhileLocked ==
    [][Len(started') > Len(started) => lockCount = 0]_vars

\* A job that was enqueued while the queue was locked has started.
C1_Witness ==
    \E i \in 1..Len(started) : started[i] \in enqLocked /\ lockCount = 0

\* C2: jobs start in enqueue order, and a job starts only after every job
\* enqueued before it has completed.
C2_FifoSerial ==
    /\ \A i \in 1..Len(started) : started[i] = i
    /\ \A i \in 1..Len(started) : i < Len(started) => started[i] \in finished
    /\ running # 0 => Len(started) > 0 /\ running = started[Len(started)]

\* Three jobs ran one after the other, the first two asynchronous.
C2_Witness ==
    /\ Len(started) >= 3
    /\ {1, 2} \subseteq finished
    /\ running = 0

----------------------------------------------------------------------------
(* Claims on the FileList chain, src() and the rebuild job *)

chain(r) == IF r = 1 THEN 1..4 ELSE 5..6

\* Discovery for root list r or some list of its chain has work outstanding.
ChainBusy(r) ==
    /\ created[r]
    /\ \/ ~globEnded[r]
       \/ \E i \in chain(r) :
              fl.pending[i] > 0 \/ inflightAt(fl, i) # {} \/ fl.ending[i] > 0

\* No load, add hook, save or end hook is in flight and discovery is over.
Quiet ==
    /\ fl.inflight = {}
    /\ \A i \in Lists : fl.ending[i] = 0
    /\ \A r \in Roots : created[r] => globEnded[r]

\* The jobs queued after run() returned are rebuild jobs.
isRebuild(id) == id > Len(InitJobs)

\* The step starts a rebuild job.
RebuildStarts ==
    /\ Len(started') > Len(started)
    /\ isRebuild(started'[Len(started')])

\* C3: a list's end hook is invoked only when no add the list received is
\* still loading, in its add hook or saving, and end() reaches the next list
\* only in the step that invoked that hook (or completed it, when the hook is
\* asynchronous), with nothing left in flight at the list.
C3_EndAfterEveryAdd ==
    [][\A i \in Lists :
          /\ fl'.closes[i] > fl.closes[i] => inflightAt(fl', i) = {}
          /\ (next(i) # 0 /\ fl'.ends[next(i)] > fl.ends[next(i)]) =>
                /\ fl'.closes[i] > fl.closes[i] \/ fl.ending[i] > 0
                /\ inflightAt(fl', i) = {}
                /\ fl'.ending[i] = 0]_vars

\* Lists 2 and 3 each received end() while an add was in flight and closed
\* later, once.
C3_Witness ==
    /\ {2, 3} \subseteq fl.busyEnds
    /\ fl.closes[2] = 1 /\ fl.closes[3] = 1
    /\ fl.ends[3] = 1

\* C4: from src() until the discovery and the chain of the root list it
\* returned have ended, the queue is locked.
C4_LockedUntilChainEnds ==
    \A r \in Roots : ChainBusy(r) => lockCount > 0

\* Both chains ended, the locks were released and the summary job has run.
C4_Witness ==
    /\ summaries = 1
    /\ fl.closes[4] = 1 /\ fl.closes[6] = 1
    /\ lockCount = 0

\* C6: when the rebuild job reads the marks, every file whose recorded deps
\* contain a marked path is marked itself, and so are the files that depend on
\* those.
C6_DependentsMarked ==
    [][RebuildStarts =>
          \A p \in changed \cup deleted :
             \A c \in Paths : p \in deps[c] => c \in changed \cup deleted]_vars

\* C7: the rebuild job adds to a root list only paths that are marked and
\* match the list's matcher, and leaves alone a root list no marked path
\* matches: nothing added, no end().
C7_RebuildOnlyMarkedMatching ==
    [][RebuildStarts =>
          \A r \in Roots :
             /\ \A p \in Paths :
                   fl'.rootAdded[r][p] > fl.rootAdded[r][p] =>
                       p \in changed \cup deleted /\ Match(r, p)
             /\ (\A p \in changed \cup deleted : ~Match(r, p)) =>
                   /\ fl'.rootAdded[r] = fl.rootAdded[r]
                   /\ fl'.ends[rootList(r)] = fl.ends[rootList(r)]
                   /\ fl'.pending[rootList(r)] = fl.pending[rootList(r)]]_vars

\* A rebuild has re-added "a" to root list 1 and has not touched root list 2.
C7_Witness ==
    /\ \E k \in 1..Len(started) : isRebuild(started[k])
    /\ fl.rootAdded[1]["a"] = 2
    /\ fl.ends[5] = 1
    /\ fl.rootAdded[2]["c"] <= 1

\* C8: a watch event changes nothing of the lists, the lock or the running
\* job, and the rebuild job it queued starts only when no lock is held, no
\* job is running and no chain has work outstanding.
C8_EventNeverInterrupts ==
    [][/\ nEvents' > nEvents =>
             fl' = fl /\ lockCount' = lockCount /\ running' = running /\ started' = started
       /\ RebuildStarts =>
             lockCount = 0 /\ running = 0 /\ \A r \in Roots : ~ChainBusy(r)]_vars

\* The first rebuild job was queued with the queue unlocked, so after the
\* watchers were in place; the second was queued while the queue was locked,
\* so during the pass of the first; and the second has started.
C8_Witness ==
    /\ Len(InitJobs) + 1 \notin enqLocked
    /\ Len(InitJobs) + 2 \in enqLocked
    /\ \E k \in 1..Len(started) : started[k] = Len(InitJobs) + 2

\* C9: every file that arrives at the dest list is forwarded, so that the dest
\* list closes: when nothing is in flight and no add hook has thrown, the dest
\* list holds no pending add.
C9_DestAlwaysCloses ==
    (Quiet /\ fl.thrown = {}) => fl.pending[3] = 0

\* C10: an add whose hook threw is still counted as completed: when nothing is
\* in flight, the list whose hook threw holds no pending add.
C10_ThrownAddStillCompletes ==
    Quiet => \A t \in fl.thrown : fl.pending[t.list] = 0

C14_SavedDepsRecorded ==
    \A p \in Paths :
        fl.savedDeps[p] # {} => deps[p] = fl.savedDeps[p] /\ fl.savedDeps[p] \subseteq watched

\* Nothing is left to happen but a watch event: no job runs, no callback
\* is outstanding, and the queue is empty or locked.
Settled ==
    /\ Quiet /\ running = 0 /\ watchAdding = {}
    /\ \A r \in Roots : created[r] /\ attached[r]
    /\ queue = <<>> \/ lockCount > 0

\* The summary job ran after the task job and after the root lists of the
\* task and the lists src() appended to them had reached their end.
SummaryAfterDrain ==
    summaries >= 1 =>
        /\ (IF buildMode = "server" THEN 2 ELSE 1) \in finished
        /\ \A r \in Roots : created[r] /\ fl.closes[rootList(r)] >= 1
        /\ fl.closes[4] >= 1 /\ fl.closes[6] >= 1

\* C18: a run emits its summary once: never twice, only after the task job
\* and the root lists of the task have ended, and it has emitted it when
\* nothing is left to happen.
C18_ExactlyOneSummary ==
    /\ summaries <= 1
    /\ SummaryAfterDrain
    /\ Settled => summaries = 1

----------------------------------------------------------------------------
(* SpecWatch: the FSWatcher and the disk under it *)

FInit ==
    /\ QInit

\* Some program writes a file, new or existing.
DiskWrite(p) ==
    /\ p \in WFiles /\ disk.clock <= MaxDisk
    /\ p = "d/p" => disk.at["d"] > 0
    /\ disk' = [at |-> [disk.at EXCEPT ![p] = disk.clock + 1], clock |-> disk.clock + 1]
    /\ UNCHANGED <<pvars, lvars, uvars, fw, qvars, bvars, wvars>>

\* Some program removes a file, or the folder with what it holds.
DiskRemove(p) ==
    /\ p \in WPaths /\ disk.clock <= MaxDisk /\ disk.at[p] > 0
    /\ disk' = [at |-> [q \in WPaths |->
                          IF q = p \/ (p = "d" /\ q = "d/p") THEN 0 ELSE disk.at[q]],
                clock |-> disk.clock + 1]
    /\ UNCHANGED <<pvars, lvars, uvars, fw, qvars, bvars, wvars>>

\* The native watcher reports a path.
RawEvent(p) ==
    /\ p \in WPaths
    /\ LET F == handleWatchChange(fw, p)
       IN  fw' = [F EXCEPT !.unheard = @ \/ ~F.timer]
    /\ UNCHANGED <<pvars, lvars, uvars, disk, qvars, bvars, wvars>>

\* The debounce timer fires.
TimerFires ==
    /\ fw.timer
    /\ fw' = [emitPendingChanges(fw) EXCEPT !.unheard = FALSE]
    /\ UNCHANGED <<pvars, lvars, uvars, disk, qvars, bvars, wvars>>

\* fs.stat(path) calls back with what is on the disk now.
StatDone(p) ==
    /\ fw.stats[p] > 0
    /\ LET F  == [fw EXCEPT !.stats[p] = @ - 1]
           at == IF p \in WPaths THEN disk.at[p] ELSE 0
       IN  fw' = CASE at = 0 -> settle(removeCache(F, p))
                   [] p \in WFiles -> settle(updateCacheFile(F, p, at))
                   [] OTHER -> [F EXCEPT !.readdirs = @ + 1]
    /\ UNCHANGED <<pvars, lvars, uvars, disk, qvars, bvars, wvars>>

\* fs.readdir("d") calls back: the entries replace the cache, and the loops
\* over the old and the new entries run on their indices, so that they ask for
\* "d/0" whatever the entry is called.
ReaddirDone ==
    /\ fw.readdirs > 0
    /\ LET F0 == [fw EXCEPT !.readdirs = @ - 1]
           F  == IF F0.dirEntries # {} THEN removeCache(F0, "d/0") ELSE F0
       IN  fw' = IF disk.at["d"] = 0
                 THEN settle(removeCache(F0, "d"))
                 ELSE settle([F EXCEPT !.dirCached = TRUE,
                                       !.dirEntries = entriesOf(disk.at),
                                       !.stats["d/0"] = @ + Cardinality(entriesOf(disk.at))])
    /\ UNCHANGED <<pvars, lvars, uvars, disk, qvars, bvars, wvars>>

FNext ==
    \/ \E p \in WFiles : DiskWrite(p)
    \/ \E p \in WPaths : DiskRemove(p)
    \/ \E p \in WPaths : RawEvent(p)
    \/ TimerFires
    \/ \E p \in StatPaths : StatDone(p)
    \/ ReaddirDone

SpecWatch == FInit /\ [][FNext]_vars

\* C5: one emission of the FSWatcher names no path both as deleted and as
\* changed.
C5_EmissionListsDisjoint ==
    fw.lastDeletes \cap fw.lastChanges = {}

\* C11: every raw event leaves a debounce timer armed, so that a cache update
\* of its path follows when the timer fires, in the first window and in every
\* later one.
C11_RawEventArmsTimer ==
    ~fw.unheard

\* The step is the fs.stat callback of p and p is in the list of deleted paths
\* it leaves behind: in _deletes, or in what onDelete got if the callback was
\* the last one outstanding.
statMarks(p) ==
    IF updatePending(fw') = 0 THEN p \in fw'.lastDeletes ELSE p \in fw'.deletes

reportedDeleted == IF updatePending(fw') = 0 THEN fw'.lastDeletes ELSE fw'.deletes

\* C37: when fs.readdir of a folder calls back with its entries, every entry
\* of the cached list that is absent from the new list and is tracked is
\* reported deleted, a cache update (fs.stat) of every entry of the new list
\* is started, and the cached list is replaced by the new list.
C37_FolderDiff ==
    [][(ReaddirDone /\ disk.at["d"] > 0) =>
          /\ \A e \in fw.dirEntries \ entriesOf(disk.at) :
                fw.fileCache[e] > 0 => e \in reportedDeleted
          /\ \A e \in entriesOf(disk.at) : fw'.stats[e] > fw.stats[e]
          /\ fw'.dirEntries = entriesOf(disk.at)]_vars

\* The cached list of the folder is replaced by the new list, one cache
\* update is started for each of its entries, on the path of its index, and
\* no path is reported deleted.
C37_ListReplacedIndicesExamined ==
    [][(ReaddirDone /\ disk.at["d"] > 0) =>
          /\ fw'.dirCached /\ fw'.dirEntries = entriesOf(disk.at)
          /\ fw'.stats["d/0"] = fw.stats["d/0"] + Cardinality(entriesOf(disk.at))
          /\ \A e \in WPaths : fw'.stats[e] = fw.stats[e]
          /\ reportedDeleted = fw.deletes]_vars

\* C39: every onChange of the FSWatcher gets a list of paths and a list of
\* stats of the same length, the i-th stats being those of the i-th path.
C39_PathsMatchStats ==
    ~fw.unmatched

\* The paths of _changes are the paths of the last stats of _changeStats, in
\* the same order; the stats before them are those of earlier emissions.
C39_StatsEndWithPaths ==
    /\ Len(fw.changes) <= Len(fw.changeStats)
    /\ SubSeq(fw.changeStats, Len(fw.changeStats) - Len(fw.changes) + 1,
              Len(fw.changeStats)) = fw.changes
    /\ (fw.unmatched => fw.emits >= 2)

----------------------------------------------------------------------------
(* SpecPipe: a task builds a chain with pipe() and files pass along it *)

PInit ==
    /\ QInit

\* list.pipe(processor) on a list of the chain. The task builds the chain
\* before the first file arrives: glob and the Watcher add files from
\* callbacks that run after the task has returned.
Pipe(i, c) ==
    /\ i \in 1..pp.n /\ pp.n < MaxLists /\ pp.adds = 0 /\ pp.at = 0
    /\ pp' = pipe(pp, i, c)
    /\ UNCHANGED <<qvars, bvars, wvars, fvars, lvars, uvars>>

\* root.add(file): glob or the Watcher adds a file to the root list.
PAdd(p, clean) ==
    /\ pp.adds < MaxAdds /\ pp.at = 0
    /\ LET f == [path |-> p, ver |-> pp.adds + 1, clean |-> clean]
       IN  pp' = pAdd([pp EXCEPT !.adds = @ + 1, !.last = f, !.refused = {}, !.got = {}], 1, 1)
    /\ UNCHANGED <<qvars, bvars, wvars, fvars, lvars, uvars>>

\* The add hook of the list that has the file returns res (the root has no
\* hook: _onLoad calls _onAdd(file, root)); the file goes on within the same
\* call, so nothing else happens in between.
PHook(res) ==
    /\ pp.at # 0
    /\ pp.at = 1 => res = "undefined"
    /\ pp' = pOnAdd(pp, pp.at, pp.last, 1, res)
    /\ UNCHANGED <<qvars, bvars, wvars, fvars, lvars, uvars>>

\* root.end(): the pass ends on every list of the chain.
PEnd ==
    /\ pp.adds > 0 /\ pp.at = 0
    /\ pp' = pEnd(pp)
    /\ UNCHANGED <<qvars, bvars, wvars, fvars, lvars, uvars>>

PNext ==
    \/ \E i \in PLists, c \in BOOLEAN : Pipe(i, c)
    \/ \E p \in PPaths \cup {Generated}, clean \in BOOLEAN : PAdd(p, clean)
    \/ \E res \in PResults : PHook(res)
    \/ PEnd

SpecPipe == PInit /\ [][PNext]_vars

\* C15: when the add hook of a list returned false for the file, the file was
\* added to no list derived from that list.
C15_DroppedReachesNoDerivedList ==
    \A i \in pp.refused : \A j \in pp.got : ~derivedFrom(pp, j, i)

\* The clones in buffer b, as a set
clones(b) == {b[k] : k \in 1..Len(b)}

\* C16: the buffer of a collecting list never holds two clones with one
\* initalPath; an add of a file with an initalPath to a collecting list
\* leaves the clones of the other paths as they were and, for its own path,
\* leaves the clone of that file alone, or nothing when the file is in clean
\* mode.
C16_OneCloneOfTheLatest ==
    [][/\ \A i \in PLists, p \in PPaths :
             Cardinality({k \in 1..Len(pp'.files[i]) : pp'.files[i][k].path = p}) <= 1
       /\ (pp.at # 0 /\ pp.collect[pp.at] /\ pp.last.path # Generated) =>
             LET b == pp.files[pp.at]
                 f == pp.last
                 others == {c \in clones(b) : c.path # f.path}
             IN  clones(pp'.files[pp.at]) =
                     IF f.clean THEN others
                     ELSE others \cup {[path |-> f.path, ver |-> f.ver]}]_vars

\* Two files of "x" were added: one collecting list holds the clone of the
\* second, and one that the second did not reach still holds the clone of
\* the first.
C16_Witness ==
    /\ pp.adds = 2 /\ pp.at = 0
    /\ \E i \in PLists : pp.collect[i] /\ pp.files[i] = <<[path |-> "x", ver |-> 2]>>
    /\ \E i \in PLists : pp.collect[i] /\ pp.files[i] = <<[path |-> "x", ver |-> 1]>>

\* C17: pipe() gives the new list the receiver as prev and links it after
\* the last list of the chain, touching no other link; and the next links
\* from the root pass through every list created so far exactly once.
C17_PipeAppendsToOneChain ==
    [][/\ pp'.n = pp.n + 1 =>
             LET r == pp'.n
             IN  /\ pp'.prev[r] \in 1..pp.n
                 /\ pp'.next[result(pp, pp'.prev[r])] = r
                 /\ pp'.next[r] = 0
                 /\ \A i \in 1..pp.n : pp'.prev[i] = pp.prev[i]
                 /\ \A i \in 1..pp.n : pp.next[i] # 0 => pp'.next[i] = pp.next[i]
       /\ LET c == chainFrom(pp', 1)
          IN  Len(c) = pp'.n /\ {c[k] : k \in 1..Len(c)} = 1..pp'.n]_vars

\* Four lists, two of them piped from lists that were not the last of the
\* chain at the time.
C17_Witness ==
    /\ pp.n >= 4
    /\ pp.prev[3] = 1 /\ pp.prev[4] = 2
    /\ chainFrom(pp, 1) = <<1, 2, 3, 4>>

----------------------------------------------------------------------------
(* SpecLoad: File.load *)

LInit ==
    /\ QInit

LNew(generated, clean, data) ==
    /\ ~lf.made
    /\ lf' = newFile(lf, generated, clean, data)
    /\ UNCHANGED <<qvars, bvars, wvars, fvars, pvars, uvars>>

\* file.load(callback), from FileList.add, File.save or a plugin
LLoad ==
    /\ lf.made /\ lf.calls < MaxLoads
    /\ lf' = load(lf)
    /\ UNCHANGED <<qvars, bvars, wvars, fvars, pvars, uvars>>

\* One of the reads in flight calls back with what is on the disk.
LReadDone ==
    /\ lf.reading > 0
    /\ lf' = readDone(lf, lf.disk)
    /\ UNCHANGED <<qvars, bvars, wvars, fvars, pvars, uvars>>

\* A hook reads file.buffer or file.content.
LGet ==
    /\ lf.made /\ lf.destContent = Undefined /\ lf.srcBuffer = Undefined
    /\ lf' = getSrcBuffer(lf)
    /\ UNCHANGED <<qvars, bvars, wvars, fvars, pvars, uvars>>

\* A hook assigns file.content.
LSet ==
    /\ lf.made /\ lf.destContent = Undefined
    /\ lf' = setContent(lf, Written)
    /\ UNCHANGED <<qvars, bvars, wvars, fvars, pvars, uvars>>

\* The file at initalPath is written or deleted by someone else.
LDiskChange(data) ==
    /\ lf.made /\ ~lf.generated /\ data # lf.disk
    /\ lf' = [lf EXCEPT !.disk = data]
    /\ UNCHANGED <<qvars, bvars, wvars, fvars, pvars, uvars>>

LNext ==
    \/ \E generated \in BOOLEAN, clean \in BOOLEAN, data \in 0..MaxData :
          LNew(generated, clean, data)
    \/ LLoad
    \/ LReadDone
    \/ LGet
    \/ LSet
    \/ \E data \in 0..MaxData : LDiskChange(data)

SpecLoad == LInit /\ [][LNext]_vars

\* C20: the load() calls made on one File, overlapping ones included, issue
\* at most one read of the source; once no read is in flight every load
\* callback has been invoked; and a load() call made on a loaded file leaves
\* its content as it was.
C20_LoadReadsOnce ==
    [][/\ lf'.reads <= 1
       /\ lf'.reading = 0 => lf'.called = lf'.calls
       /\ (isLoaded(lf) /\ lf'.calls > lf.calls) => content(lf') = content(lf)]_vars

\* The parts of C20 that do not depend on the reads overlapping.
C20_CallbacksAndIdempotence ==
    [][/\ lf'.reading = 0 => lf'.called = lf'.calls
       /\ (isLoaded(lf) /\ lf'.calls > lf.calls) =>
              /\ content(lf') = content(lf)
              /\ lf'.reads = lf.reads]_vars

\* A second read calls back after the first and replaces what the first had
\* loaded with something else.
C20_SecondReadOverwrites ==
    [][~(/\ lf.srcBuffer # Undefined
         /\ lf'.reading < lf.reading
         /\ lf'.srcBuffer # lf.srcBuffer)]_vars

----------------------------------------------------------------------------
(* SpecSave: File.save *)

SInit ==
    /\ QInit

\* A File reaches a dest() in a run of mode run: marked is the Watcher's
\* f.buildMode = clean, which only a Watcher sets.
SNew(run, marked, generated, dest, modified, overwrite, hasData, map, emit, inline) ==
    /\ ~sv.made
    /\ marked => run \in {"watch", "server"}
    /\ generated \/ modified \/ marked \/ run = "clean" => hasData
    /\ sv' = [sv EXCEPT !.made = TRUE, !.run = run,
                        !.mode = IF marked THEN "clean" ELSE run,
                        !.generated = generated, !.dest = dest, !.modified = modified,
                        !.overwrite = overwrite, !.loaded = hasData,
                        !.map = map, !.emit = emit, !.inline = inline]
    /\ UNCHANGED <<qvars, bvars, wvars, fvars, pvars, lvars, yvars, sm, mt, vq>>

\* file.save(dir, callback), once the previous save has called back
SSave ==
    /\ sv.made /\ sv.saves < MaxSaves /\ sv.called = sv.saves
    /\ sv' = File_save(sv)
    /\ UNCHANGED <<qvars, bvars, wvars, fvars, pvars, lvars, yvars, sm, mt, vq>>

\* writeFile, copyFile or the deleteFile chain calls done.
SIoDone(op, error) ==
    /\ op \in sv.io
    /\ sv' = File_saveDone(sv, op, error)
    /\ UNCHANGED <<qvars, bvars, wvars, fvars, pvars, lvars, yvars, sm, mt, vq>>

\* The load started on the sink branch calls back.
SSinkLoaded(error) ==
    /\ sv.reading
    /\ sv' = sinkLoaded(sv, error)
    /\ UNCHANGED <<qvars, bvars, wvars, fvars, pvars, lvars, yvars, sm, mt, vq>>

SNext ==
    \/ \E run \in BuildModes, marked \in BOOLEAN, generated \in BOOLEAN,
          dest \in {"none", "same", "other"}, modified \in BOOLEAN,
          overwrite \in BOOLEAN, hasData \in BOOLEAN,
          map \in BOOLEAN, emit \in BOOLEAN, inline \in BOOLEAN :
          SNew(run, marked, generated, dest, modified, overwrite, hasData, map, emit, inline)
    \/ SSave
    \/ \E op \in {"file", "map"}, error \in BOOLEAN : SIoDone(op, error)
    \/ \E error \in BOOLEAN : SSinkLoaded(error)

SpecSave == SInit /\ [][SNext]_vars

\* C21: a save of a file that is not generated, is modified and would land
\* on its own source path without overwrite logs one error on the file,
\* starts no write of any kind and invokes the save callback.
C21_OverwriteRefused ==
    [][(/\ sv'.saves = sv.saves + 1
        /\ ~sv.generated /\ sv.dest = "same" /\ ~sv.overwrite
        /\ sv.modified \/ sourceMapEmit(sv))
       => /\ sv'.errors = sv.errors + 1
          /\ sv'.fsCalls = sv.fsCalls /\ sv'.sunk = sv.sunk /\ sv'.io = {}
          /\ ~sv'.reading
          /\ sv'.fileCount = sv.fileCount
          /\ sv'.called = sv.called + 1]_vars

\* A modified source file was saved onto itself and refused.
C21_Witness ==
    /\ sv.refused >= 1 /\ sv.modified /\ sv.dest = "same" /\ ~sv.generated
    /\ sv.called = sv.saves /\ sv.fsCalls = 0

\* The checks save() makes before it looks at the build mode let the file
\* through: it has a save path, and it is not a source file saved onto
\* itself either unmodified or without overwrite.
passesChecks(F) ==
    /\ F.dest # "none"
    /\ F.generated \/ F.dest # "same" \/ ((F.modified \/ sourceMapEmit(F)) /\ F.overwrite)

\* C22 as stated: in preview mode every save() call starts no write, copy or
\* delete and raises the written-file count by one.
C22_PreviewCountsEverySave ==
    [][(sv'.saves = sv.saves + 1 /\ sv.mode = "preview")
       => /\ sv'.fsCalls = sv.fsCalls /\ sv'.sunk = sv.sunk /\ sv'.io = {}
          /\ sv'.fileCount = sv.fileCount + 1]_vars

\* C22, amended: in preview mode every save() call starts no write, copy or
\* delete and invokes its callback at once; it raises the written-file count
\* by one when the file passes the checks made before the write, and leaves
\* the count alone when it does not.
C22_PreviewCountsPassingSaves ==
    [][(sv'.saves = sv.saves + 1 /\ sv.mode = "preview")
       => /\ sv'.fsCalls = sv.fsCalls /\ sv'.sunk = sv.sunk /\ sv'.io = {}
          /\ sv'.called = sv.called + 1
          /\ sv'.fileCount = sv.fileCount + (IF passesChecks(sv) THEN 1 ELSE 0)]_vars

\* A modified file was saved twice in preview mode: counted twice, nothing
\* written.
C22_Witness ==
    /\ sv.mode = "preview" /\ sv.modified /\ sv.dest = "other"
    /\ sv.saves = 2 /\ sv.called = 2 /\ sv.fileCount = 2 /\ sv.fsCalls = 0

----------------------------------------------------------------------------
(* SpecMap: SourceMapBuilder.addMapping and applySourceMap *)

MInit ==
    /\ QInit

\* b.addMapping(line, col, path, 0, col): the mapping of an identity
\* transform, or one without a source.
MAdd(line, col, path) ==
    /\ sm.adds < MaxMaps /\ ~sm.applied
    /\ sm' = addMapping(sm, line, col, path, 0, col)
    /\ UNCHANGED <<qvars, bvars, wvars, fvars, pvars, lvars, yvars, sv, mt, vq>>

\* m.applySourceMap(other)
MApply(U) ==
    /\ sm.adds > 0 /\ ~sm.applied
    /\ sm' = applySourceMap(sm, U)
    /\ UNCHANGED <<qvars, bvars, wvars, fvars, pvars, lvars, yvars, sv, mt, vq>>

MNext ==
    \/ \E line \in GLines, col \in 0..MaxCol, path \in {NoPath, "s", "t"} :
          MAdd(line, col, path)
    \/ \E U \in Others : MApply(U)

SpecMap == MInit /\ [][MNext]_vars

\* C23: on every generated line the mappings are in strictly increasing
\* generatedColumn order, a mapping added on a column that is already there
\* having replaced the one that was.
C23_ColumnsStrictlyIncrease ==
    \A l \in GLines : \A i, j \in 1..Len(sm.mappings[l]) :
        i < j => sm.mappings[l][i].generatedColumn < sm.mappings[l][j].generatedColumn

\* What addMapping does keep, as long as no source map was applied: the
\* columns of a line never decrease.
C23_ColumnsNeverDecrease ==
    ~sm.applied =>
        \A l \in GLines : \A i, j \in 1..Len(sm.mappings[l]) :
            i < j => sm.mappings[l][i].generatedColumn <= sm.mappings[l][j].generatedColumn

\* C24: after applySourceMap(other) with other.file naming a source of the
\* builder, that source is gone from sources, and every mapping has either
\* no source or a sourceIndex that is a valid index of sources and names the
\* path the mapping is meant to have: its old path when it was left alone,
\* the origin other gives when it was rewritten or copied.
C24_AppliedSourcesAreRight ==
    (sm.applied /\ sm.removed # NoPath) =>
        /\ \A i \in 1..Len(sm.sources) : sm.sources[i] # sm.removed
        /\ \A l \in GLines : \A i \in 1..Len(sm.mappings[l]) :
              LET m == sm.mappings[l][i]
              IN  IF m.sourceIndex = Undefined THEN sm.meant[l][i] = NoPath
                  ELSE /\ m.sourceIndex >= 0 /\ m.sourceIndex < Len(sm.sources)
                       /\ sm.sources[m.sourceIndex + 1] = sm.meant[l][i]
                       /\ sm.meant[l][i] # sm.removed

----------------------------------------------------------------------------
(* SpecMatch: Matcher.add, Matcher.addIgnore and Matcher.test *)

\* The arguments of add and addIgnore: one glob string, with or without a
\* leading "!" for add, or an empty array.
Inc(g) == <<[kind |-> "glob", glob |-> g]>>

Exc(g) == <<[kind |-> "not", glob |-> g]>>

GInit ==
    /\ QInit

\* m.add(pattern)
GAdd(pattern) ==
    /\ mt.calls < MaxPats
    /\ mt' = [Matcher_add(mt, pattern) EXCEPT !.calls = @ + 1]
    /\ UNCHANGED <<qvars, bvars, wvars, fvars, pvars, lvars, yvars, sv, sm, vq>>

\* m.addIgnore(pattern)
GAddIgnore(pattern) ==
    /\ mt.calls < MaxPats
    /\ mt' = [addIgnore(mt, pattern) EXCEPT !.calls = @ + 1]
    /\ UNCHANGED <<qvars, bvars, wvars, fvars, pvars, lvars, yvars, sv, sm, vq>>

GNext ==
    \/ \E g \in Globs : GAdd(Inc(g)) \/ GAdd(Exc(g))
    \/ GAdd(<<>>)
    \/ \E g \in Globs : GAddIgnore(Inc(g))
    \/ GAddIgnore(<<>>)

SpecMatch == GInit /\ [][GNext]_vars

\* C25: test(p) is true exactly when an include pattern accepts p, or there
\* is no include pattern, and no exclude pattern accepts p; an exclude set
\* without patterns excludes nothing.
C25_TestIsIncludeAndNotExclude ==
    \A p \in MPaths :
        test(mt, p) <=> /\ mt.patterns = {} \/ \E i \in mt.patterns : p \in i
                        /\ \A e \in mt.ignore : p \notin e

\* The same, for matchers whose ignoreMatcher, if there is one, has a
\* pattern.
C25_HoldsWithNonEmptyExcludes ==
    (mt.hasIgnore => mt.ignore # {}) =>
        \A p \in MPaths :
            test(mt, p) <=> /\ mt.patterns = {} \/ \E i \in mt.patterns : p \in i
                            /\ \A e \in mt.ignore : p \notin e

----------------------------------------------------------------------------
(* SpecVlq: encodeBase64Vlq and decodeBase64Vlq *)

VInit ==
    /\ QInit

\* toJSON encodes a field of a mapping.
VEncode(n) ==
    /\ vq.phase = "new"
    /\ vq' = [vq EXCEPT !.phase = "encoded", !.n = n, !.text = encodeBase64Vlq(n)]
    /\ UNCHANGED <<qvars, bvars, wvars, fvars, pvars, lvars, yvars, sv, sm, mt>>

\* The constructor decodes it again.
VDecode ==
    /\ vq.phase = "encoded"
    /\ vq' = [vq EXCEPT !.phase = "decoded", !.out = decodeBase64Vlq(vq.text)]
    /\ UNCHANGED <<qvars, bvars, wvars, fvars, pvars, lvars, yvars, sv, sm, mt>>

VNext ==
    \/ \E n \in VlqInputs : VEncode(n)
    \/ VDecode

SpecVlq == VInit /\ [][VNext]_vars

\* C26: decoding the encoding of n gives n, for every n of the 32-bit range.
C26_DecodeInvertsEncode ==
    vq.phase = "decoded" => vq.out = vq.n

\* The round trip holds for every n with |n| < 2^30.
C26_HoldsBelowTwo30 ==
    (vq.phase = "decoded" /\ -Two30 < vq.n /\ vq.n < Two30) => vq.out = vq.n

----------------------------------------------------------------------------
(* Claims on the closing of a FileList *)

\* C27: a list never reaches its end more often than its upstream has called
\* end() on it, and while every end() it received has been answered the
\* counter of an open list stays above the number of adds in flight at it, so
\* the completion of those adds leaves the list open.
C27_NoCloseBeforeUpstreamEnd ==
    \A i \in Lists :
        /\ fl.closes[i] <= fl.ends[i]
        /\ (fl.adding[i] /\ fl.ends[i] = fl.closes[i] /\ fl.ending[i] = 0) =>
               fl.pending[i] > Cardinality(inflightAt(fl, i))

\* The asynchronous processor has completed its only add on list 2 and passed
\* the file on while the root list has not ended: list 2 is open on its
\* sentinel alone.
C27_Witness ==
    /\ pkind = "async"
    /\ fl.rootAdded[1]["a"] = 1 /\ fl.ends[1] = 0
    /\ fl.adding[2] /\ fl.pending[2] = 1 /\ inflightAt(fl, 2) = {}
    /\ fl.adding[3]
    /\ fl.closes[2] = 0

\* C28: the after hook of a list is invoked only when no add of the pass is
\* still in flight at the list (loading or in its add hook), that is once the
\* counter has nothing left to count but the end itself.
C28_AfterOnlyWhenDrained ==
    fl.afterBusy = {}

\* Every end() a list received has been answered by one run of its end, and
\* the lists of the first chain have been ended as often as their root list.
EveryEndAnswered ==
    /\ \A i \in Lists : fl.closes[i] = fl.ends[i]
    /\ fl.ends[2] = fl.ends[1] /\ fl.ends[3] = fl.ends[1]

\* C29: in the first pass and in every pass the Watcher starts by adding
\* files to a root list again, each list runs its end (for a then() list: its
\* end hook) exactly once per end() of its root list: never two end hooks of
\* a list at a time, never more ends than end() calls, and once nothing is in
\* flight any more every list of the chain has been ended and has run its end
\* as often as the root list was ended.
C29_EndHookOncePerPass ==
    /\ \A i \in Lists : fl.ending[i] <= 1 /\ fl.closes[i] <= fl.ends[i]
    /\ Quiet => EveryEndAnswered

\* The property holds in the runs in which no add hook has thrown and File.save
\* was not asked to remove a file through the server's sink.
C29_HoldsWithoutLostAdds ==
    /\ \A i \in Lists : fl.ending[i] <= 1 /\ fl.closes[i] <= fl.ends[i]
    /\ (Quiet /\ fl.thrown = {} /\ ~(sink /\ fl.cleaned # {})) => EveryEndAnswered

\* A second pass has gone through the whole first chain, the then() list
\* included.
C29_SecondPass ==
    /\ Quiet /\ fl.thrown = {}
    /\ fl.ends[1] = 2 /\ fl.closes[3] = 2 /\ fl.closes[4] = 2

----------------------------------------------------------------------------
(* Claims on the locks of the root lists *)

\* C30: the lock src() and each rebuild take for a root list is released once,
\* when the chain of that root list has ended: no unlock without a lock, and
\* when the run has nothing left to do (discovery over, no load, hook or save
\* in flight, every then() list of src() appended, no job running) no lock is
\* held and no job is left in the queue.
C30_LocksReleased ==
    /\ lockCount >= 0
    /\ Settled => (lockCount = 0 /\ queue = <<>>)

\* The root list of a chain ended before the setImmediate of src() had
\* appended the then() list that holds the unlock.
EndedBeforeThen ==
    fl.ends[4] < fl.closes[3] \/ fl.ends[6] < fl.closes[5]

\* The locks are released in the runs in which every add completed and every
\* then() list was appended before its chain ended.
C30_HoldsWhenChainsEnd ==
    /\ lockCount >= 0
    /\ (Settled /\ fl.thrown = {} /\ ~(sink /\ fl.cleaned # {}) /\ ~EndedBeforeThen) =>
           (lockCount = 0 /\ queue = <<>>)

\* A rebuild pass took its lock and released it: two passes of the first
\* chain are over and the queue is unlocked and empty.
C30_RebuildReleased ==
    /\ Settled /\ lockCount = 0 /\ queue = <<>>
    /\ fl.closes[4] = 2

----------------------------------------------------------------------------
(* SpecFs: the calls of the program, the callbacks of the native calls, the
   retry timers and the timer of the delayed list *)

FsInit ==
    /\ QInit

\* The program calls copyFile, readDir, readFile or writeFile.
FsCall(c) ==
    /\ fs.kind[c] = "none"
    /\ \E kind \in FsKinds(c), n \in 0..MaxTry : fs' = fsCall(fs, c, kind, n)
    /\ UNCHANGED <<qvars, bvars, wvars, fvars, pvars, lvars, sv, sm, mt, vq, wk, ic, dp>>

\* What the native call a may report. An error that makes the facade try again
\* is reported only while tryCount is not below -MaxExtra, and the copy loop
\* reads at most MaxChunks buffers.
mayReport(a) ==
    {out \in Outcomes :
        /\ a.op \in {"close", "mkdir"} => out = "ok"
        /\ (out # "ok" /\ ~(a.op \in {"read", "write"} /\ out = "ENOENT")) => a.tryCount >= -MaxExtra
        /\ (a.op = "read" /\ out = "ok") => a.pos < MaxChunks}

\* A native call calls back.
FsDone(a) ==
    /\ a \in fs.running
    /\ \E out \in mayReport(a) : fs' = completed([fs EXCEPT !.running = @ \ {a}], a, out)
    /\ UNCHANGED <<qvars, bvars, wvars, fvars, pvars, lvars, sv, sm, mt, vq, wk, ic, dp>>

\* A setTimeout(func, 7, ...) fires: the function is called again.
FsRetry(a) ==
    /\ a \in fs.retries
    /\ fs' = issue([fs EXCEPT !.retries = @ \ {a}], a)
    /\ UNCHANGED <<qvars, bvars, wvars, fvars, pvars, lvars, sv, sm, mt, vq, wk, ic, dp>>

\* The timer of the delayed list fires after 7 s: resolve().
FsTimer ==
    /\ fs.timer = "armed"
    /\ fs' = resolve([fs EXCEPT !.timer = "fired"])
    /\ UNCHANGED <<qvars, bvars, wvars, fvars, pvars, lvars, sv, sm, mt, vq, wk, ic, dp>>

FsNext ==
    \/ \E c \in FsCalls : FsCall(c)
    \/ \E a \in fs.running : FsDone(a)
    \/ \E a \in fs.retries : FsRetry(a)
    \/ FsTimer

SpecFs == FsInit /\ [][FsNext]_vars

\* C31: while a call is on the list of delayed calls something is left that
\* will call resolve(): the timer is armed, or a native call is in flight or a
\* retry is pending whose completion may reach resolve().
C31_DelayedCallHasWakeUp ==
    fs.delayed # <<>> => (fs.timer = "armed" \/ fs.running # {} \/ fs.retries # {})

\* C32: a call made with tryCount = n issues its native function (for
\* copyFile: the open of each side) at most n + 1 times.
C32_AtMostNPlusOneAttempts ==
    \A c \in FsCalls, s \in {"r", "w", "-"} : fs.attempts[c][s] <= fs.n[c] + 1

\* Nothing is in flight, pending or delayed for call c.
FsOver(c) ==
    /\ fs.kind[c] # "none"
    /\ \A a \in fs.running \cup fs.retries : a.id # c
    /\ \A k \in 1..Len(fs.delayed) : fs.delayed[k].id # c

\* C38: copyFile invokes its callback once: never twice, and once when
\* nothing of the call is left in flight, pending or delayed.
C38_CopyFileCallsBackOnce ==
    /\ fs.called[1] <= 1
    /\ FsOver(1) => fs.called[1] = 1

----------------------------------------------------------------------------
(* SpecWalk: two walks of one glob, with and without the caches *)

WkInit ==
    /\ QInit

\* No walk has started yet.
fresh == \A w \in Walks : wk.root[w] = "none"

\* glob calls walk(base, options) for a pattern; the first call decides
\* whether the caches are on.
WkStart(w) ==
    /\ wk.root[w] = "none"
    /\ \E base \in {"d", "d/s"}, cache \in BOOLEAN :
         /\ w = 1 => base = "d"
         /\ ~fresh => cache = wk.cache
         /\ wk' = processFileOrDir([wk EXCEPT !.root[w] = base, !.cache = cache,
                                              !.globLeft = IF fresh THEN Cardinality(Walks) ELSE @],
                                   w, base)
    /\ UNCHANGED <<qvars, bvars, wvars, fvars, pvars, lvars, sv, sm, mt, vq, fs, ic, dp>>

\* getStat calls back.
WkStatDone(x) ==
    /\ x \in wk.inflight /\ x.op = "stat"
    /\ \E error \in BOOLEAN : wk' = statDone([wk EXCEPT !.inflight = @ \ {x}], x, error)
    /\ UNCHANGED <<qvars, bvars, wvars, fvars, pvars, lvars, sv, sm, mt, vq, fs, ic, dp>>

\* readDir calls back.
WkReadDirDone(x) ==
    /\ x \in wk.inflight /\ x.op = "readDir"
    /\ \E error \in BOOLEAN : wk' = readDirDone([wk EXCEPT !.inflight = @ \ {x}], x, error)
    /\ UNCHANGED <<qvars, bvars, wvars, fvars, pvars, lvars, sv, sm, mt, vq, fs, ic, dp>>

WkNext ==
    \/ \E w \in Walks : WkStart(w)
    \/ \E x \in wk.inflight : WkStatDone(x)
    \/ \E x \in wk.inflight : WkReadDirDone(x)

SpecWalk == WkInit /\ [][WkNext]_vars

\* The number of times w occurs in the queue q
RECURSIVE occurs(_, _)
occurs(q, w) ==
    IF q = <<>> THEN 0 ELSE (IF Head(q) = w THEN 1 ELSE 0) + occurs(Tail(q), w)

RECURSIVE sumOver(_, _, _)
sumOver(ps, Q, w) ==
    IF ps = {} THEN 0
    ELSE LET p == CHOOSE x \in ps : TRUE IN occurs(Q[p], w) + sumOver(ps \ {p}, Q, w)

\* The callbacks walk w is still to receive from getStat and readDir
outstanding(w) ==
    IF wk.cache
    THEN sumOver(TPaths, wk.statQ, w) + sumOver(TPaths, wk.entQ, w)
    ELSE Cardinality({x \in wk.inflight : x.w = w})

\* C33: a walk invokes its end callback at most once, and when it has done so
\* nothing of the walk is outstanding and every entry of every folder it
\* listed has been through the stat callback once, whatever errors getStat
\* and readDir reported on other entries; a walk that has started and has
\* nothing outstanding has invoked end; the root list is ended at most once
\* and only when every walk has invoked end.
C33_EndOnceAfterEverything ==
    /\ \A w \in Walks :
          /\ wk.ends[w] <= 1
          /\ wk.ends[w] = 1 =>
                /\ outstanding(w) = 0
                /\ \A p \in wk.listed[w] : \A k \in 1..Len(entriesIn(p)) :
                       wk.calls[w][entriesIn(p)[k]] = 1
          /\ (wk.root[w] # "none" /\ outstanding(w) = 0) => wk.ends[w] = 1
    /\ wk.rootEnds <= 1
    /\ wk.rootEnds = 1 => \A w \in Walks : wk.ends[w] = 1

\* Walk 1 has ended after an error on one entry of d and a visit of the
\* other, and the root list was ended after both walks.
C33_Witness ==
    /\ wk.ends[1] = 1 /\ wk.errors[1] = 1
    /\ "d" \in wk.listed[1]
    /\ wk.calls[1]["d/f"] = 1 /\ wk.calls[1]["d/s"] = 1
    /\ wk.rootEnds = 1

\* C34: with the caches on, no two requests for the same path are in flight,
\* a path holds queued callbacks exactly while its request is in flight, the
\* pending counter of each walk equals the number of callbacks it is still to
\* receive, and no walk receives the stat callback of a path twice.
C34_RequestsAreShared ==
    wk.cache =>
        /\ \A x, y \in wk.inflight : (x.op = y.op /\ x.path = y.path) => x = y
        /\ \A p \in TPaths :
              /\ wk.statQ[p] # <<>> <=> \E x \in wk.inflight : x.op = "stat" /\ x.path = p
              /\ wk.entQ[p] # <<>> <=> \E x \in wk.inflight : x.op = "readDir" /\ x.path = p
        /\ \A w \in Walks :
              /\ wk.pending[w] = outstanding(w)
              /\ \A p \in TPaths : wk.calls[w][p] <= 1

\* Walk 2 asked for d while the getStat of walk 1 was in flight, was called
\* with the stats, went on through the folder and has ended.
C34_Witness ==
    /\ wk.cache
    /\ [w |-> 2, path |-> "d"] \in wk.queued
    /\ wk.calls[2]["d"] = 1 /\ "d" \in wk.listed[2]
    /\ wk.errors[2] = 0
    /\ wk.ends[2] = 1

----------------------------------------------------------------------------
(* Claims on the marks of the Watcher *)

\* C35: no marked path is lost: when the run has nothing left to do, every
\* path the Watcher had put in changed or deleted has been taken by a rebuild
\* job and both sets are empty.
C35_NoMarkedPathLost ==
    Settled => changed \cup deleted = {}

\* What the rebuild job does with the marks: it adds each marked path once to
\* each root list whose matcher accepts it (a deleted path in preview mode is
\* taken and not added), adds nothing else, leaves both sets empty, and ends
\* no root list and takes no lock when it found both sets empty. No other
\* step takes a path out of the sets, except that a new mark moves a path
\* from one set to the other.
C35_RebuildTakesEachMarkOnce ==
    [][/\ StartRebuild =>
             /\ changed' = {} /\ deleted' = {}
             /\ \A r \in Roots, p \in Paths :
                    fl'.rootAdded[r][p] =
                        fl.rootAdded[r][p] +
                        (IF /\ Match(r, p)
                            /\ \E k \in 1..Len(rootLists) : rootLists[k] = r
                            /\ p \in changed \/ (p \in deleted /\ buildMode # "preview")
                         THEN 1 ELSE 0)
             /\ (changed \cup deleted = {}) => (fl' = fl /\ lockCount' = lockCount)
       /\ ~StartRebuild => changed \cup deleted \subseteq changed' \cup deleted']_vars

\* The marks are taken in every run in which the queue is not left locked.
C35_HoldsWhenUnlocked ==
    (Settled /\ lockCount = 0) => changed \cup deleted = {}

\* Two rebuild jobs have run, the second on marks made during the pass of the
\* first, and nothing is marked any more.
C35_TwoRebuilds ==
    /\ Settled /\ lockCount = 0
    /\ Len(InitJobs) + 2 \in enqLocked
    /\ Len(InitJobs) + 2 \in finished
    /\ changed \cup deleted = {}

----------------------------------------------------------------------------
(* SpecAdd: one addWatch and the fs callbacks of _initCache *)

AInit ==
    /\ QInit

AAdd ==
    /\ ~ic.added
    /\ ic' = addWatch(ic)
    /\ UNCHANGED <<qvars, bvars, wvars, fvars, pvars, lvars, sv, sm, mt, vq, fs, wk, dp>>

\* fs.stat calls back.
AStat(x) ==
    /\ x \in ic.inflight /\ x.op = "stat"
    /\ \E res \in StatResults : ic' = initStat([ic EXCEPT !.inflight = @ \ {x}], x.path, res)
    /\ UNCHANGED <<qvars, bvars, wvars, fvars, pvars, lvars, sv, sm, mt, vq, fs, wk, dp>>

\* fs.readdir calls back; only the base has entries.
AReaddir(x) ==
    /\ x \in ic.inflight /\ x.op = "readdir"
    /\ \E error \in {"none", "EMFILE", "EIO"}, n \in 0..MaxEntries :
         /\ error = "EMFILE" => ic.retried < MaxRetries
         /\ n > 0 => (error = "none" /\ x.path = Base)
         /\ ic' = initReaddir([ic EXCEPT !.inflight = @ \ {x}], x.path, error, n)
    /\ UNCHANGED <<qvars, bvars, wvars, fvars, pvars, lvars, sv, sm, mt, vq, fs, wk, dp>>

\* The timer set after EMFILE fires: _initCache(path, context, stats, entries)
\* with the entries of the failed call, that is none.
ARetry(p) ==
    /\ p \in ic.timers
    /\ ic' = initCache([ic EXCEPT !.timers = @ \ {p}], p, "dir", -1)
    /\ UNCHANGED <<qvars, bvars, wvars, fvars, pvars, lvars, sv, sm, mt, vq, fs, wk, dp>>

ANext ==
    \/ AAdd
    \/ \E x \in ic.inflight : AStat(x)
    \/ \E x \in ic.inflight : AReaddir(x)
    \/ \E p \in IPaths : ARetry(p)

SpecAdd == AInit /\ [][ANext]_vars

\* C36: FSWatcher.add invokes its callback once for every call: never twice,
\* and when no fs call of the add is in flight and no retry is pending it has
\* been invoked and the "watch" lock of addWatch is released.
C36_AddCallsBackOnce ==
    /\ ic.called <= 1
    /\ (ic.added /\ ic.inflight = {} /\ ic.timers = {}) => (ic.called = 1 /\ ic.locks = 0)

\* The callback is invoked, once, whenever every path the add looked at was a
\* file, a folder or could not be stat'ed.
C36_HoldsForFilesAndFolders ==
    /\ ic.called <= 1
    /\ (ic.added /\ ic.inflight = {} /\ ic.timers = {} /\ ic.pending <= 0) =>
           (ic.called = 1 /\ ic.locks = 0)

----------------------------------------------------------------------------
(* SpecDeps: Watcher.addChange and Watcher.addDelete on every dependency map
   over Paths, those with cycles and self dependencies included *)

DInit ==
    /\ QInit

\* The builds so far left the dependency map d.
DLoad(d) ==
    /\ ~dp.loaded
    /\ dp' = [dp EXCEPT !.loaded = TRUE, !.deps = d]
    /\ UNCHANGED <<qvars, bvars, wvars, fvars, pvars, lvars, sv, sm, mt, vq, fs, wk, ic>>

marked(M) ==
    [dp EXCEPT !.changed = M.changed, !.deleted = M.deleted, !.marks = @ + 1,
               !.calls = M.calls, !.pushed = M.pushed]

\* Watcher.onChange / onCreate for one path
DChange(p) ==
    /\ dp.loaded /\ dp.marks < MaxMarks
    /\ dp' = marked(addChange([NoMarks EXCEPT !.changed = dp.changed, !.deleted = dp.deleted],
                              dp.deps, p))
    /\ UNCHANGED <<qvars, bvars, wvars, fvars, pvars, lvars, sv, sm, mt, vq, fs, wk, ic>>

\* Watcher.onDelete for one path
DDelete(p) ==
    /\ dp.loaded /\ dp.marks < MaxMarks
    /\ dp' = marked(addDelete([NoMarks EXCEPT !.changed = dp.changed, !.deleted = dp.deleted],
                              dp.deps, p))
    /\ UNCHANGED <<qvars, bvars, wvars, fvars, pvars, lvars, sv, sm, mt, vq, fs, wk, ic>>

\* The rebuild job takes the marks: this.changed = []; this.deleted = [].
DRebuild ==
    /\ dp.marks > 0
    /\ dp' = [dp EXCEPT !.changed = <<>>, !.deleted = <<>>, !.marks = 0,
                        !.calls = 0, !.pushed = <<>>]
    /\ UNCHANGED <<qvars, bvars, wvars, fvars, pvars, lvars, sv, sm, mt, vq, fs, wk, ic>>

DNext ==
    \/ \E d \in [Paths -> SUBSET Paths] : DLoad(d)
    \/ \E p \in Paths : DChange(p)
    \/ \E p \in Paths : DDelete(p)
    \/ DRebuild

SpecDeps == DInit /\ [][DNext]_vars

\* No element twice
noRepeat(s) == \A j, k \in 1..Len(s) : s[j] = s[k] => j = k

\* An event makes at most this many invocations of addChange: one for each
\* key of addDelete's loop, and one for each key of the loop of each
\* invocation that pushes a path.
CallBound == Cardinality(Paths) * (Cardinality(Paths) + 1)

====
